---- MODULE Spec2Model ----
(***************************************************************************)
(* The bridge between the assistant's blocking run operation and the       *)
(* cooperative dispatcher: CoderWrapper (run_wrapper, stop,                *)
(* signal_completion), IOWrapper (confirm_ask_wrapper, the stream relay)   *)
(* and BaseWrapper (_safe_create_task).                                    *)
(*                                                                         *)
(* Threads: the dispatcher (event loop) thread, which executes the RPC     *)
(* handlers run_wrapper and stop and the coroutines submitted to the loop; *)
(* one CoderRunThread per run_wrapper call; throwaway threads of           *)
(* _safe_create_task.  Python threads interleave between statements, so a  *)
(* handler that races with a worker is split at the statements where the   *)
(* shared attribute _current_run_thread is read or written.                *)
(***************************************************************************)
EXTENDS Integers, Sequences, FiniteSets, TLC

\* ------------------------------------------------------------------ bounds
MaxRuns == 2   \* run_wrapper calls that spawn a worker
MaxOps  == 2   \* relay / confirmation / terminal-command calls
MaxRelayRuns == 1   \* runs started in the Stream Relay specification
MaxPeers == 2       \* peers attached at once
MaxChurn == 2       \* attach / detach events
MaxFaults == 1      \* failures of get_remotes / console.print in the monitor
MaxPrompts == 1     \* calls of the console input prompt
MaxCalls == 3       \* calls of _safe_create_task in the Task Bridge specification

Workers == 1..MaxRuns
NoThread == 0

\* ------------------------------------------------------------ value domains
\* (question, subject) pairs, the keys of io.never_prompts
QuestionIds == { <<"Q1", "S1">>, <<"Q1", "S2">> }
\* what the local confirmation routine returns (True / False)
LocalAnswers == {"True", "False"}
\* what MessageHandler.confirmation_request resolves to: a bare scalar
\* ("d" is the don't-ask-again marker), or a dict of per-peer answers
\* (vals are the dict's values)
Bare(v) == [dict |-> FALSE, vals |-> <<v>>]
Replies == { Bare("True"), Bare("False"), Bare("d"),
             [dict |-> TRUE, vals |-> <<"d">>],
             [dict |-> TRUE, vals |-> <<"True", "d">>] }
NoReply == [dict |-> FALSE, vals |-> << >>]

\* messages handed to run_wrapper: a string as its characters grouped in
\* tokens ("sp" is whitespace), or a non-string value
Str(toks) == [isStr |-> TRUE, toks |-> toks]
Messages == { Str(<<"add tests">>), Str(<<"/help">>), Str(<<"sp", "/code", "sp">>),
              Str(<<"/help", "sp", "topic">>), [isStr |-> FALSE, toks |-> <<"/help">>] }

VARIABLES
    mainLoop,      \* BaseWrapper.main_loop: "live", "none" (never captured), "closed"
    runThread,     \* CoderWrapper._current_run_thread (NoThread: None or unset)
    nextW,         \* number of workers spawned so far
    dpc,           \* position of the dispatcher thread inside an RPC handler
    stopTid,       \* stop(): the local thread_id
    ret,           \* the value a handler is returning to the RPC caller
    wpc,           \* position of each CoderRunThread
    exitPath,      \* how each worker's run ended: returned, raised, interrupt
    pendingIntr,   \* async KeyboardInterrupt set on the thread, not yet raised
    injected,      \* history: an interrupt was registered on the worker
    sigCalls,      \* history: signal_completion() calls made by each worker
    loopQ,         \* coroutines submitted to the dispatcher, in submission order
    throwQ,        \* coroutines handed to throwaway threads
    inflight,      \* confirmation requests sent to the peer and not yet answered
    fut,           \* per worker: the future confirm_ask_wrapper waits on
    askReq,        \* per worker: arguments of its current/last confirm_ask call
    askRes,        \* per worker: value returned by its last confirm_ask call
    neverPrompts,  \* io.never_prompts
    ops,           \* relay / confirmation / terminal-command calls made so far
    relayRaised,   \* history: workers into whose frame a relay call raised
    hasCommandOutput, \* IOWrapper.has_command_output
    peerLog,       \* streamWrite calls received by the peer, in order
    peerComplete,  \* streamComplete calls received by the peer, per run
    peerErrors,    \* streamError calls received by the peer
    remotes,       \* number of peers attached to the JRPC server
    churn,         \* attach / detach events so far
    faults,        \* failed get_remotes / console.print calls in the monitor so far
    isConnected,   \* IOWrapper.is_connected
    mpc,           \* connection monitor thread: "poll" or "sleep"
    monErr,        \* what failed in the monitor's last poll: "none", "remotes", "print", "both"
    ppc,           \* wrapped_prompt: "idle", "wait_check", "wait_sleep", "prompting"
    prompts,       \* wrapped_prompt calls so far
    promptRes,     \* outcome of the last wrapped_prompt call
    console,       \* what was printed on io.console, in order
    calls,         \* _safe_create_task calls made so far: path taken, handle returned, state of the work
    schedLog,      \* messages logged by _safe_create_task and by its throwaway threads
    emitFut,       \* per worker: the future assistant_output_wrapper waits on (id 0: none)
    coder,         \* CoderWrapper.coder: the session the wrapper refers to
    original_run,  \* CoderWrapper.original_run: the session whose run method was captured
    coderInstance, \* CoderWrapper._coder_instance (class level)
    currentCoderType, \* Coder._current_coder_type
    sessions,      \* assistant sessions created so far (session ids are 1..sessions)
    typeNotices,   \* onCoderTypeChanged notices handed to _safe_create_task: the session ids
    started,       \* per worker: the run method its thread invokes, and self.coder at the start
    cmdCalls,      \* history: signal_command_complete() calls made so far
    request_id,    \* LanguageServerProcess.request_id
    pending_requests, \* LanguageServerProcess.pending_requests: the ids that have an entry
    lspReq,        \* per request sent: state of its send_request call, id of the response it got
    readLoop       \* LanguageServerProcess._read_loop is running

schedVars == << calls, schedLog >>

emitVars == << emitFut >>

\* the assistant sessions and what the run executor holds of them
sessVars == << coder, original_run, coderInstance, currentCoderType, sessions, typeNotices, started >>

cmdVars == << cmdCalls >>

lspVars == << request_id, pending_requests, lspReq, readLoop >>

\* the state of the connection monitor and the console prompt
monVars == << remotes, churn, faults, isConnected, mpc, monErr, ppc, prompts, promptRes, console >>

connVars == << remotes, churn, faults, isConnected, mpc, monErr, ppc, prompts, promptRes, console,
              schedVars, emitVars, sessVars, cmdVars, lspVars >>

\* the state of the run executor, the relay and the confirmation channel
coreVars == << mainLoop, runThread, nextW, dpc, stopTid, ret,
               wpc, exitPath, pendingIntr, injected, sigCalls,
               loopQ, throwQ, inflight, fut, askReq, askRes, neverPrompts, ops,
               relayRaised, hasCommandOutput, peerLog, peerComplete, peerErrors >>

vars == << mainLoop, runThread, nextW, dpc, stopTid, ret,
           wpc, exitPath, pendingIntr, injected, sigCalls,
           loopQ, throwQ, inflight, fut, askReq, askRes, neverPrompts, ops,
           relayRaised, hasCommandOutput, peerLog, peerComplete, peerErrors,
           remotes, churn, faults, isConnected, mpc, monErr, ppc, prompts, promptRes,
           console, calls, schedLog, emitFut,
           coder, original_run, coderInstance, currentCoderType, sessions, typeNotices, started,
           cmdCalls, request_id, pending_requests, lspReq, readLoop >>

handlerVars == << dpc, stopTid, ret >>
askVars     == << inflight, fut, askReq, askRes, neverPrompts >>
peerVars    == << peerLog, peerComplete, peerErrors >>

\* ------------------------------------------------------------ exceptions.py
\* variant: the exception is reported as a plain status, not an error value
create_error_response_status(type, message) ==
    [status |-> message]

\* create_error_response: a dict with the keys error, type, details
create_error_response(type, message) ==
    [error |-> message, type |-> type, details |-> "{}"]

IsErrorResponse(r) == DOMAIN r = {"error", "type", "details"}

NoResult == [status |-> "none"]

\* ---------------------------------------------------------- base_wrapper.py
\* `self.main_loop and not self.main_loop.is_closed()`
LoopLive == mainLoop = "live"

\* _safe_create_task(coro) called with queues lq, tq; hasRunningLoop says
\* whether asyncio.get_running_loop() succeeds on the calling thread.
\* Result: the queues after the call.
safe_create_task(lq, tq, coro, hasRunningLoop) ==
    IF LoopLive THEN << Append(lq, coro), tq >>            \* run_coroutine_threadsafe
    ELSE IF hasRunningLoop THEN << Append(lq, coro), tq >> \* asyncio.create_task
    ELSE << lq, Append(tq, coro) >>                        \* throwaway thread

\* -------------------------------------------------------------------- state
Alive(w) == wpc[w] \notin {"unborn", "exited"}

\* variant: a worker waiting for a reply holds the dispatcher thread
DispatcherIdleNoWaiter ==
    /\ dpc = "idle"
    /\ mainLoop # "closed"
    /\ \A w \in Workers : wpc[w] # "ask_wait"

\* The dispatcher thread is free to run a handler or a coroutine.
DispatcherIdle == dpc = "idle" /\ mainLoop # "closed"

Task(kind, by, id, final) == [kind |-> kind, by |-> by, id |-> id, final |-> final]

NoFuture == [st |-> "none", val |-> NoReply, req |-> 0]
NoAnswer == [via |-> "none", val |-> NoReply, req |-> 0]
\* the session handed to CoderWrapper.__init__
ConstructionSession == 1
NoStart == [run |-> 0, coder |-> 0]
CoderTypes == { "EditBlockCoder", "AskCoder" }

MaxRequests == 3
RequestIds == 1..MaxRequests
NoRequest == [st |-> "none", got |-> 0]

NoEmit == [id |-> 0, st |-> "none"]

Init ==
    /\ mainLoop \in {"live", "none"}
    /\ runThread = NoThread
    /\ nextW = 0
    /\ dpc = "idle"
    /\ stopTid = NoThread
    /\ ret = NoResult
    /\ wpc = [w \in Workers |-> "unborn"]
    /\ exitPath = [w \in Workers |-> "none"]
    /\ pendingIntr = [w \in Workers |-> FALSE]
    /\ injected = [w \in Workers |-> FALSE]
    /\ sigCalls = [w \in Workers |-> 0]
    /\ loopQ = << >>
    /\ throwQ = << >>
    /\ inflight = {}
    /\ fut = [w \in Workers |-> NoFuture]
    /\ askReq = [w \in Workers |-> [q |-> <<"Q1", "S1">>, allow_never |-> FALSE, n |-> 0]]
    /\ askRes = [w \in Workers |-> NoAnswer]
    /\ neverPrompts = {}
    /\ ops = 0
    /\ relayRaised = {}
    /\ hasCommandOutput = FALSE
    /\ peerLog = << >>
    /\ peerComplete = [w \in 0..MaxRuns |-> 0]
    /\ peerErrors = 0
    /\ remotes = 0
    /\ churn = 0
    /\ faults = 0
    /\ isConnected = TRUE
    /\ mpc = "poll"
    /\ monErr = "none"
    /\ ppc = "idle"
    /\ prompts = 0
    /\ promptRes = "none"
    /\ console = << >>
    /\ calls = << >>
    /\ schedLog = 0
    /\ emitFut = [w \in Workers |-> NoEmit]
    /\ coder = ConstructionSession
    /\ original_run = ConstructionSession
    /\ coderInstance = ConstructionSession
    /\ currentCoderType = "EditBlockCoder"
    /\ sessions = 1
    /\ typeNotices = << >>
    /\ started = [w \in Workers |-> NoStart]
    /\ cmdCalls = 0
    /\ request_id = 0
    /\ pending_requests = {}
    /\ lspReq = [id \in RequestIds |-> NoRequest]
    /\ readLoop = TRUE

\* ---------------------------------------------------------- coder_wrapper.py
TerminalCommands == { "/model", "/editor-model", "/weak-model", "/chat-mode",
                      "/help", "/ask", "/code", "/architect", "/context" }

\* str.strip(): drop leading and trailing whitespace
RECURSIVE LStrip(_)
LStrip(t) == IF t # << >> /\ Head(t) = "sp" THEN LStrip(Tail(t)) ELSE t
RECURSIVE RStrip(_)
RStrip(t) == IF t # << >> /\ t[Len(t)] = "sp" THEN RStrip(SubSeq(t, 1, Len(t) - 1)) ELSE t
Strip(t) == RStrip(LStrip(t))

\* _is_terminal_command(message)
is_terminal_command(message) ==
    /\ message.isStr
    /\ Len(Strip(message.toks)) = 1
    /\ Strip(message.toks)[1] \in TerminalCommands

\* signal_completion(): the remote call object is built on the calling thread
\* (lookupOk = FALSE: building it raises, which is caught and logged), then
\* handed to _safe_create_task.  `by` is the run that signals (0: run_wrapper).
\* Result: the queues after the call.
signal_completion(lq, tq, by, lookupOk, hasRunningLoop) ==
    IF lookupOk
      THEN safe_create_task(lq, tq, Task("complete", by, 0, FALSE), hasRunningLoop)
      ELSE << lq, tq >>

\* run_wrapper(message), the terminal-command branch (lines 221-230)
RunTerminal(message, noticeOk, completeOk) ==
    /\ DispatcherIdle
    /\ ops < MaxOps
    /\ is_terminal_command(message)
    /\ ops' = ops + 1
    /\ dpc' = "run_return"
    /\ IF noticeOk
         THEN LET q1 == safe_create_task(loopQ, throwQ, Task("notice", 0, 0, TRUE), TRUE)
                  q2 == signal_completion(q1[1], q1[2], 0, completeOk, TRUE)
              IN /\ loopQ' = q2[1]
                 /\ throwQ' = q2[2]
                 /\ ret' = [status |-> "terminal_command_detected", command |-> message]
         ELSE \* building the streamWrite call raised: except branch, line 271
              /\ ret' = create_error_response("KeyError", "MessageHandler.streamWrite")
              /\ UNCHANGED << loopQ, throwQ >>
    /\ UNCHANGED << connVars, mainLoop, runThread, nextW, stopTid, wpc, exitPath, pendingIntr,
                    injected, sigCalls, askVars, relayRaised, hasCommandOutput,
                    peerVars >>

\* run_wrapper(message), lines 232-267: create the thread, record it in
\* _current_run_thread, start it
RunSpawn(message) ==
    /\ DispatcherIdle
    /\ nextW < MaxRuns
    /\ ~is_terminal_command(message)
    /\ nextW' = nextW + 1
    /\ runThread' = nextW + 1
    /\ wpc' = [wpc EXCEPT ![nextW + 1] = "run"]
    /\ dpc' = "run_spawned"
    /\ started' = [started EXCEPT ![nextW + 1] = [run |-> original_run, coder |-> coder]]
    /\ UNCHANGED << monVars, schedVars, emitVars, cmdVars, lspVars, coder, original_run, coderInstance,
                    currentCoderType, sessions, typeNotices,
                    mainLoop, stopTid, ret, exitPath, pendingIntr, injected, sigCalls,
                    loopQ, throwQ, askVars, ops, relayRaised, hasCommandOutput,
                    peerVars >>

\* variant: run_wrapper joins the thread before it returns
RunReturnAfterJoin ==
    /\ dpc = "run_spawned"
    /\ wpc[runThread] = "exited"
    /\ dpc' = "run_return"
    /\ ret' = [status |-> "coder.run initiated", thread_name |-> "CoderRunThread"]
    /\ UNCHANGED << connVars, mainLoop, runThread, nextW, stopTid, wpc, exitPath, pendingIntr,
                    injected, sigCalls, loopQ, throwQ, askVars, ops, relayRaised,
                    hasCommandOutput, peerVars >>

\* run_wrapper(message), line 269: the return that follows thread.start()
RunReturn ==
    /\ dpc = "run_spawned"
    /\ dpc' = "run_return"
    /\ ret' = [status |-> "coder.run initiated", thread_name |-> "CoderRunThread"]
    /\ UNCHANGED << connVars, mainLoop, runThread, nextW, stopTid, wpc, exitPath, pendingIntr,
                    injected, sigCalls, loopQ, throwQ, askVars, ops, relayRaised,
                    hasCommandOutput, peerVars >>

\* stop(), line 170: the test of _current_run_thread; line 189 when it fails
StopCheck ==
    /\ DispatcherIdle
    /\ IF runThread # NoThread
         THEN /\ dpc' = "stop_checked"
              /\ UNCHANGED ret
         ELSE /\ dpc' = "stop_return"
              /\ ret' = create_error_response("ProcessError",
                                              "No active thread to interrupt")
    /\ UNCHANGED << connVars, mainLoop, runThread, nextW, stopTid, wpc, exitPath, pendingIntr,
                    injected, sigCalls, loopQ, throwQ, askVars, ops, relayRaised,
                    hasCommandOutput, peerVars >>

\* stop(), line 173: thread_id = self._current_run_thread.ident, a second
\* read of the attribute (None.ident raises AttributeError, caught at 190)
StopIdent ==
    /\ dpc = "stop_checked"
    /\ IF runThread # NoThread
         THEN /\ stopTid' = runThread
              /\ dpc' = "stop_ident"
              /\ UNCHANGED ret
         ELSE /\ dpc' = "stop_return"
              /\ ret' = create_error_response("AttributeError",
                            "'NoneType' object has no attribute 'ident'")
              /\ UNCHANGED stopTid
    /\ UNCHANGED << connVars, mainLoop, runThread, nextW, wpc, exitPath, pendingIntr, injected,
                    sigCalls, loopQ, throwQ, askVars, ops, relayRaised,
                    hasCommandOutput, peerVars >>

\* stop(), lines 176-185: PyThreadState_SetAsyncExc(thread_id, KeyboardInterrupt)
\* returns the number of thread states modified: 1 for a live thread, 0 for
\* one that has exited; both take the `else` branch of `res > 1`
StopInject ==
    /\ dpc = "stop_ident"
    /\ dpc' = "stop_return"
    /\ stopTid' = NoThread
    /\ IF Alive(stopTid)
         THEN /\ pendingIntr' = [pendingIntr EXCEPT ![stopTid] = TRUE]
              /\ injected' = [injected EXCEPT ![stopTid] = TRUE]
         ELSE UNCHANGED << pendingIntr, injected >>
    /\ ret' = [status |-> "interrupt_sent_to_thread"]
    /\ UNCHANGED << connVars, mainLoop, runThread, nextW, wpc, exitPath, sigCalls, loopQ, throwQ,
                    askVars, ops, relayRaised, hasCommandOutput, peerVars >>

\* the handler's return value goes back to the RPC caller
HandlerReturns ==
    /\ dpc \in {"run_return", "stop_return"}
    /\ dpc' = "idle"
    /\ ret' = NoResult
    /\ UNCHANGED << connVars, mainLoop, runThread, nextW, stopTid, wpc, exitPath, pendingIntr,
                    injected, sigCalls, loopQ, throwQ, askVars, ops, relayRaised,
                    hasCommandOutput, peerVars >>

\* ---------------------------------- coder_wrapper.py: task_to_run_in_thread
\* wpc: "unborn" -> "run" (inside actual_run_method) -> "run_done" (line 248,
\* before signal_completion) or "run_exc" (the except branch, lines 251-254)
\* -> "finally" (line 257) -> "exited".
\* "ask_wait" is a worker blocked in future.result() inside confirm_ask.

\* actual_run_method(message) returns (line 245)
RunReturns(w) ==
    /\ wpc[w] = "run"
    /\ wpc' = [wpc EXCEPT ![w] = "run_done"]
    /\ exitPath' = [exitPath EXCEPT ![w] = "returned"]
    /\ UNCHANGED << connVars, mainLoop, runThread, nextW, handlerVars, pendingIntr, injected,
                    sigCalls, loopQ, throwQ, askVars, ops, relayRaised,
                    hasCommandOutput, peerVars >>

\* actual_run_method(message) raises an Exception (caught at line 250)
RunRaises(w) ==
    /\ wpc[w] = "run"
    /\ wpc' = [wpc EXCEPT ![w] = "run_exc"]
    /\ exitPath' = [exitPath EXCEPT ![w] = "raised"]
    /\ UNCHANGED << connVars, mainLoop, runThread, nextW, handlerVars, pendingIntr, injected,
                    sigCalls, loopQ, throwQ, askVars, ops, relayRaised,
                    hasCommandOutput, peerVars >>

\* variant: signal_completion without its try/except
signal_completion_uncaught(lookupOk) == ~lookupOk

\* whether an exception raised while building the remote call leaves
\* signal_completion: its try/except (lines 195-199) catches every Exception
signal_completion_raises(lookupOk) == FALSE

\* the worker's call of signal_completion at `at` ("run_done": line 248,
\* "run_exc": line 254).  A raise at line 248 would enter the except branch,
\* a raise at line 254 would leave through the finally block.
WorkerSignals(w, at, lookupOk) ==
    /\ wpc[w] = at
    /\ sigCalls' = [sigCalls EXCEPT ![w] = @ + 1]
    /\ LET q == signal_completion(loopQ, throwQ, w, lookupOk, FALSE)
       IN /\ loopQ' = q[1]
          /\ throwQ' = q[2]
    /\ IF signal_completion_raises(lookupOk)
         THEN /\ relayRaised' = relayRaised \cup {w}
              /\ wpc' = [wpc EXCEPT ![w] = IF at = "run_done" THEN "run_exc" ELSE "finally"]
         ELSE /\ wpc' = [wpc EXCEPT ![w] = "finally"]
              /\ UNCHANGED relayRaised
    /\ UNCHANGED << connVars, mainLoop, runThread, nextW, handlerVars, exitPath, pendingIntr,
                    injected, askVars, ops, hasCommandOutput, peerVars >>

\* line 248
SignalInTry(w, lookupOk) == WorkerSignals(w, "run_done", lookupOk)

\* line 254
SignalInExcept(w, lookupOk) == WorkerSignals(w, "run_exc", lookupOk)

\* variant: the finally block clears _current_run_thread whoever it names
FinallyClearAlways(w) ==
    /\ wpc[w] = "finally"
    /\ wpc' = [wpc EXCEPT ![w] = "exited"]
    /\ runThread' = NoThread
    /\ pendingIntr' = [pendingIntr EXCEPT ![w] = FALSE]
    /\ UNCHANGED << connVars, mainLoop, nextW, handlerVars, exitPath, injected, sigCalls, loopQ,
                    throwQ, askVars, ops, relayRaised, hasCommandOutput, peerVars >>

\* lines 255-258: the finally block clears _current_run_thread if it still
\* names this thread; then the thread ends, and an interrupt still pending
\* on it is dropped
FinallyClear(w) ==
    /\ wpc[w] = "finally"
    /\ wpc' = [wpc EXCEPT ![w] = "exited"]
    /\ runThread' = IF runThread = w THEN NoThread ELSE runThread
    /\ pendingIntr' = [pendingIntr EXCEPT ![w] = FALSE]
    /\ UNCHANGED << connVars, mainLoop, nextW, handlerVars, exitPath, injected, sigCalls, loopQ,
                    throwQ, askVars, ops, relayRaised, hasCommandOutput, peerVars >>

\* variant: a pending interrupt is raised in a thread that waits in
\* future.result()
BlockedWakesOnInterrupt(w) == FALSE

\* A thread blocked in future.result() executes no bytecode, so a pending
\* interrupt is not raised in it until the future is resolved.
Blocked(w) == wpc[w] = "ask_wait" /\ fut[w].st = "pending"

\* The pending KeyboardInterrupt is raised in the worker.  It is a
\* BaseException, which `except Exception` (lines 149, 198, 250) does not
\* catch.  Inside the run operation (absorb = TRUE) the assistant's own
\* KeyboardInterrupt handling may swallow it; everywhere else it propagates:
\* out of the try block into the finally block (no signal_completion), or,
\* raised inside the finally block, past the clearing statement.
Interrupt(w, absorb) ==
    /\ pendingIntr[w]
    /\ wpc[w] \in {"run", "ask_wait", "run_done", "run_exc", "finally"}
    /\ ~Blocked(w)
    /\ absorb => wpc[w] \in {"run", "ask_wait"}
    /\ pendingIntr' = [pendingIntr EXCEPT ![w] = FALSE]
    /\ IF absorb
         THEN /\ wpc' = [wpc EXCEPT ![w] = "run"]
              /\ UNCHANGED exitPath
         ELSE /\ wpc' = [wpc EXCEPT ![w] = IF wpc[w] = "finally" THEN "exited" ELSE "finally"]
              /\ exitPath' = [exitPath EXCEPT ![w] = "interrupt"]
    /\ IF wpc[w] = "ask_wait"
         THEN /\ fut' = [fut EXCEPT ![w] = NoFuture]
              /\ askRes' = [askRes EXCEPT ![w] = [NoAnswer EXCEPT !.via = "interrupted"]]
         ELSE UNCHANGED << fut, askRes >>
    /\ UNCHANGED << connVars, mainLoop, runThread, nextW, handlerVars, injected, sigCalls,
                    loopQ, throwQ, inflight, askReq, neverPrompts, ops, relayRaised,
                    hasCommandOutput, peerVars >>

\* -------------------------------------------------------------- io_wrapper.py
\* variant: the wrapper waits for the delivery and lets its failure out
stream_output_awaits(w, final) ==
    /\ wpc[w] = "run"
    /\ ops < MaxOps
    /\ ops' = ops + 1
    /\ \E ok \in BOOLEAN :
         IF ok \/ ~LoopLive
           THEN /\ peerLog' = IF LoopLive
                                THEN Append(peerLog, [role |-> "assistant", by |-> w, id |-> ops + 1,
                                                      final |-> final])
                                ELSE peerLog
                /\ UNCHANGED << wpc, exitPath, relayRaised >>
           ELSE /\ relayRaised' = relayRaised \cup {w}
                /\ wpc' = [wpc EXCEPT ![w] = "run_exc"]
                /\ exitPath' = [exitPath EXCEPT ![w] = "raised"]
                /\ UNCHANGED peerLog
    /\ UNCHANGED << connVars, mainLoop, runThread, nextW, handlerVars, pendingIntr, injected,
                    sigCalls, loopQ, throwQ, askVars, hasCommandOutput, peerComplete,
                    peerErrors >>

\* variant: the coroutine is put at the front of the dispatcher's queue
stream_output_prepends(w, final) ==
    /\ wpc[w] = "run"
    /\ ops < MaxOps
    /\ ops' = ops + 1
    /\ loopQ' = IF LoopLive THEN << Task("write", w, ops + 1, final) >> \o loopQ ELSE loopQ
    /\ UNCHANGED << connVars, mainLoop, runThread, nextW, handlerVars, wpc, exitPath, pendingIntr,
                    injected, sigCalls, throwQ, askVars, relayRaised,
                    hasCommandOutput, peerVars >>

\* stream_output_wrapper(text, final), called by the run operation: submit
\* send_stream_update to the dispatcher if it is live, do not wait
stream_output_wrapper(w, final) ==
    /\ wpc[w] = "run"
    /\ ops < MaxOps
    /\ ops' = ops + 1
    /\ loopQ' = IF LoopLive THEN Append(loopQ, Task("write", w, ops + 1, final)) ELSE loopQ
    /\ UNCHANGED << connVars, mainLoop, runThread, nextW, handlerVars, wpc, exitPath, pendingIntr,
                    injected, sigCalls, throwQ, askVars, relayRaised,
                    hasCommandOutput, peerVars >>

\* tool_output_wrapper / tool_error_wrapper / tool_warning_wrapper /
\* print_wrapper: set has_command_output, submit send_to_webapp_command
tool_output_wrapper(w) ==
    /\ wpc[w] = "run"
    /\ ops < MaxOps
    /\ ops' = ops + 1
    /\ hasCommandOutput' = TRUE
    /\ loopQ' = IF LoopLive THEN Append(loopQ, Task("command", w, ops + 1, FALSE)) ELSE loopQ
    /\ UNCHANGED << connVars, mainLoop, runThread, nextW, handlerVars, wpc, exitPath, pendingIntr,
                    injected, sigCalls, throwQ, askVars, relayRaised, peerVars >>

\* assistant_output_wrapper(message), lines 167-188, up to the wait: submit
\* send_to_webapp to the dispatcher if it is live and wait for its future
\* (future.result(timeout=1.0), line 181)
assistant_output_wrapper(w) ==
    /\ wpc[w] = "run"
    /\ ops < MaxOps
    /\ ops' = ops + 1
    /\ IF LoopLive
         THEN /\ loopQ' = Append(loopQ, Task("message", w, ops + 1, TRUE))
              /\ emitFut' = [emitFut EXCEPT ![w] = [id |-> ops + 1, st |-> "pending"]]
              /\ wpc' = [wpc EXCEPT ![w] = "emit_wait"]
         ELSE UNCHANGED << loopQ, emitFut, wpc >>
    /\ UNCHANGED << monVars, schedVars, sessVars, cmdVars, lspVars, mainLoop, runThread, nextW, handlerVars, exitPath,
                    pendingIntr, injected, sigCalls, throwQ, askVars, relayRaised,
                    hasCommandOutput, peerVars >>

\* line 181 returns: the delivery has finished within the second
AssistantResume(w) ==
    /\ wpc[w] = "emit_wait"
    /\ emitFut[w].st = "done"
    /\ wpc' = [wpc EXCEPT ![w] = "run"]
    /\ emitFut' = [emitFut EXCEPT ![w] = NoEmit]
    /\ UNCHANGED << monVars, schedVars, sessVars, cmdVars, lspVars, mainLoop, runThread, nextW, handlerVars, exitPath,
                    pendingIntr, injected, sigCalls, loopQ, throwQ, askVars, ops, relayRaised,
                    hasCommandOutput, peerVars >>

\* lines 182-183: the second has passed with the delivery unfinished;
\* TimeoutError is logged, the coroutine stays submitted
AssistantTimeout(w) ==
    /\ wpc[w] = "emit_wait"
    /\ emitFut[w].st = "pending"
    /\ wpc' = [wpc EXCEPT ![w] = "run"]
    /\ emitFut' = [emitFut EXCEPT ![w] = NoEmit]
    /\ UNCHANGED << monVars, schedVars, sessVars, cmdVars, lspVars, mainLoop, runThread, nextW, handlerVars, exitPath,
                    pendingIntr, injected, sigCalls, loopQ, throwQ, askVars, ops, relayRaised,
                    hasCommandOutput, peerVars >>

\* _async_confirmation_request, lines 159-160: a dict of one entry is
\* replaced by its only value
ExtractResponse(r) == IF r.dict /\ Len(r.vals) = 1 THEN Bare(r.vals[1]) ELSE r

\* variant: the key is looked up as (subject, question)
InNeverPromptsSwapped(q) == << q[2], q[1] >> \in neverPrompts

\* line 118: question_id in self.io.never_prompts
InNeverPrompts(q) == q \in neverPrompts

\* confirm_ask_wrapper(question, ..., subject, ..., allow_never), lines
\* 117-147 up to the wait: q is (question, subject); localAnswer is what
\* original_confirm_ask returns when it is the one that answers
confirm_ask_wrapper(w, q, allow_never, localAnswer) ==
    /\ wpc[w] = "run"
    /\ ops < MaxOps
    /\ ops' = ops + 1
    /\ askReq' = [askReq EXCEPT ![w] = [q |-> q, allow_never |-> allow_never, n |-> ops + 1]]
    /\ IF InNeverPrompts(q)
         THEN /\ askRes' = [askRes EXCEPT ![w] =
                               [via |-> "never", val |-> Bare("False"), req |-> 0]]
              /\ UNCHANGED << loopQ, fut, wpc >>
         ELSE IF LoopLive
           THEN /\ loopQ' = Append(loopQ, Task("confirm", w, ops + 1, FALSE))
                /\ fut' = [fut EXCEPT ![w] = [NoFuture EXCEPT !.st = "pending"]]
                /\ wpc' = [wpc EXCEPT ![w] = "ask_wait"]
                /\ askRes' = [askRes EXCEPT ![w] = [NoAnswer EXCEPT !.via = "waiting"]]
           ELSE /\ askRes' = [askRes EXCEPT ![w] =
                                 [via |-> "local", val |-> Bare(localAnswer), req |-> 0]]
                /\ UNCHANGED << loopQ, fut, wpc >>
    /\ UNCHANGED << connVars, mainLoop, runThread, nextW, handlerVars, exitPath, pendingIntr,
                    injected, sigCalls, throwQ, inflight, neverPrompts, relayRaised,
                    hasCommandOutput, peerVars >>

\* line 139: response == "d" and allow_never
IsNeverReply(response, allow_never) == response = Bare("d") /\ allow_never

\* variant: the except branch re-raises into the run operation
confirm_ask_reraises(localAnswer) ==
    [pc |-> "run_exc", res |-> [via |-> "raised", val |-> NoReply, req |-> 0]]

\* confirm_ask_wrapper, lines 149-151: the except branch logs and returns
\* what original_confirm_ask returns; the worker goes on inside the run
confirm_ask_except(localAnswer) ==
    [pc |-> "run", res |-> [via |-> "local", val |-> Bare(localAnswer), req |-> 0]]

\* confirm_ask_wrapper, lines 138-151: future.result() returns or raises.
\* On the "d" branch never_prompts.add comes first (line 140) and the
\* statements after it (141-142) are still inside the try; histOk says
\* whether they returned:
\* when one of them raises (question is None, the history file cannot be
\* written) the except branch answers with original_confirm_ask.
AskResume(w, localAnswer, histOk) ==
    /\ wpc[w] = "ask_wait"
    /\ fut[w].st \in {"ok", "exc"}
    /\ fut' = [fut EXCEPT ![w] = NoFuture]
    /\ IF fut[w].st = "ok"
         THEN IF IsNeverReply(fut[w].val, askReq[w].allow_never)
                THEN /\ neverPrompts' = neverPrompts \cup {askReq[w].q}
                     /\ IF histOk
                          THEN /\ wpc' = [wpc EXCEPT ![w] = "run"]
                               /\ askRes' = [askRes EXCEPT ![w] =
                                     [via |-> "remote", val |-> Bare("False"), req |-> fut[w].req]]
                          ELSE /\ wpc' = [wpc EXCEPT ![w] = confirm_ask_except(localAnswer).pc]
                               /\ askRes' = [askRes EXCEPT ![w] = confirm_ask_except(localAnswer).res]
                ELSE /\ histOk
                     /\ wpc' = [wpc EXCEPT ![w] = "run"]
                     /\ askRes' = [askRes EXCEPT ![w] =
                                      [via |-> "remote", val |-> fut[w].val, req |-> fut[w].req]]
                     /\ UNCHANGED neverPrompts
         ELSE /\ histOk
              /\ wpc' = [wpc EXCEPT ![w] = confirm_ask_except(localAnswer).pc]
              /\ askRes' = [askRes EXCEPT ![w] = confirm_ask_except(localAnswer).res]
              /\ UNCHANGED neverPrompts
    /\ UNCHANGED << connVars, mainLoop, runThread, nextW, handlerVars, exitPath, pendingIntr,
                    injected, sigCalls, loopQ, throwQ, inflight, askReq, ops,
                    relayRaised, hasCommandOutput, peerVars >>

\* ------------------------------------------- coroutines run by the dispatcher
HeadIs(kind) == loopQ # << >> /\ Head(loopQ).kind = kind

\* MessageHandler.streamComplete() submitted by signal_completion
DeliverComplete(ok) ==
    /\ DispatcherIdle
    /\ HeadIs("complete")
    /\ loopQ' = Tail(loopQ)
    /\ peerComplete' = IF ok THEN [peerComplete EXCEPT ![Head(loopQ).by] = @ + 1]
                       ELSE peerComplete
    /\ UNCHANGED << connVars, mainLoop, runThread, nextW, handlerVars, wpc, exitPath, pendingIntr,
                    injected, sigCalls, throwQ, askVars, ops, relayRaised,
                    hasCommandOutput, peerLog, peerErrors >>

\* the streamWrite notice submitted by run_wrapper for a terminal command
DeliverNotice(ok) ==
    /\ DispatcherIdle
    /\ HeadIs("notice")
    /\ loopQ' = Tail(loopQ)
    /\ peerLog' = IF ok THEN Append(peerLog, [role |-> "assistant", by |-> 0, id |-> 0, final |-> TRUE])
                  ELSE peerLog
    /\ UNCHANGED << connVars, mainLoop, runThread, nextW, handlerVars, wpc, exitPath, pendingIntr,
                    injected, sigCalls, throwQ, askVars, ops, relayRaised,
                    hasCommandOutput, peerComplete, peerErrors >>

\* send_to_webapp(message), lines 301-316: streamWrite of a completed
\* message; on failure one streamError attempt (errOk), whose own failure is
\* logged.  The coroutine returns normally either way and its future is set.
send_to_webapp(ok, errOk) ==
    /\ DispatcherIdle
    /\ HeadIs("message")
    /\ ok => errOk
    /\ loopQ' = Tail(loopQ)
    /\ peerLog' = IF ok THEN Append(peerLog, [role |-> "assistant", by |-> Head(loopQ).by, id |-> Head(loopQ).id,
                                               final |-> TRUE])
                  ELSE peerLog
    /\ peerErrors' = IF ~ok /\ errOk THEN peerErrors + 1 ELSE peerErrors
    /\ emitFut' = [w \in Workers |->
                     IF w = Head(loopQ).by /\ emitFut[w].id = Head(loopQ).id
                       THEN [emitFut[w] EXCEPT !.st = "done"] ELSE emitFut[w]]
    /\ UNCHANGED << monVars, schedVars, sessVars, cmdVars, lspVars, mainLoop, runThread, nextW, handlerVars, wpc, exitPath,
                    pendingIntr, injected, sigCalls, throwQ, askVars, ops, relayRaised,
                    hasCommandOutput, peerComplete >>

\* send_stream_update(content, final): streamWrite; on failure one
\* streamError attempt (errOk), whose own failure is logged
send_stream_update(ok, errOk) ==
    /\ DispatcherIdle
    /\ HeadIs("write")
    /\ ok => errOk
    /\ loopQ' = Tail(loopQ)
    /\ peerLog' = IF ok THEN Append(peerLog, [role |-> "assistant", by |-> Head(loopQ).by, id |-> Head(loopQ).id,
                                               final |-> Head(loopQ).final])
                  ELSE peerLog
    /\ peerErrors' = IF ~ok /\ errOk THEN peerErrors + 1 ELSE peerErrors
    /\ UNCHANGED << connVars, mainLoop, runThread, nextW, handlerVars, wpc, exitPath, pendingIntr,
                    injected, sigCalls, throwQ, askVars, ops, relayRaised,
                    hasCommandOutput, peerComplete >>

\* send_to_webapp_command(msg_type, message): streamWrite with role
\* 'command'; a failure is logged
send_to_webapp_command(ok) ==
    /\ DispatcherIdle
    /\ HeadIs("command")
    /\ loopQ' = Tail(loopQ)
    /\ peerLog' = IF ok THEN Append(peerLog, [role |-> "command", by |-> Head(loopQ).by, id |-> Head(loopQ).id,
                                               final |-> FALSE])
                  ELSE peerLog
    /\ UNCHANGED << connVars, mainLoop, runThread, nextW, handlerVars, wpc, exitPath, pendingIntr,
                    injected, sigCalls, throwQ, askVars, ops, relayRaised,
                    hasCommandOutput, peerComplete, peerErrors >>

\* variant: one shared reply slot, read by whichever worker waits longest
FutureOfFirstWaiting(w) ==
    IF \E x \in Workers : wpc[x] = "ask_wait"
      THEN CHOOSE x \in Workers : /\ wpc[x] = "ask_wait"
                                  /\ \A y \in Workers : wpc[y] = "ask_wait" => x <= y
      ELSE w

\* which future the outcome of the round trip made for worker w is stored
\* in: the one run_coroutine_threadsafe returned to w for this coroutine
FutureOf(w) == w

\* variant: the coroutine waits for the peer's reply without suspending, and
\* holds the dispatcher thread meanwhile
async_confirmation_request_blocks(ok) ==
    /\ DispatcherIdle
    /\ HeadIs("confirm")
    /\ loopQ' = Tail(loopQ)
    /\ dpc' = "confirm_wait"
    /\ inflight' = inflight \cup { [by |-> Head(loopQ).by, n |-> Head(loopQ).id] }
    /\ UNCHANGED << connVars, mainLoop, runThread, nextW, stopTid, ret, wpc, exitPath, pendingIntr,
                    injected, sigCalls, throwQ, fut, askReq, askRes, neverPrompts, ops,
                    relayRaised, hasCommandOutput, peerVars >>

\* _async_confirmation_request up to its await: the request goes out to the
\* peer (ok), or building/sending it raises and the future gets the exception
async_confirmation_request(ok) ==
    /\ DispatcherIdle
    /\ HeadIs("confirm")
    /\ loopQ' = Tail(loopQ)
    /\ LET t == Head(loopQ)
       IN IF ok
            THEN /\ inflight' = inflight \cup { [by |-> t.by, n |-> t.id] }
                 /\ UNCHANGED fut
            ELSE /\ fut' = [fut EXCEPT ![FutureOf(t.by)] = [NoFuture EXCEPT !.st = "exc"]]
                 /\ UNCHANGED inflight
    /\ UNCHANGED << connVars, mainLoop, runThread, nextW, handlerVars, wpc, exitPath, pendingIntr,
                    injected, sigCalls, throwQ, askReq, askRes, neverPrompts, ops,
                    relayRaised, hasCommandOutput, peerVars >>

\* the peer answers confirmation request rq with reply r; the suspended
\* coroutine resumes and its return value resolves its future
PeerReply(rq, r) ==
    /\ DispatcherIdle
    /\ rq \in inflight
    /\ inflight' = inflight \ {rq}
    /\ fut' = [fut EXCEPT ![FutureOf(rq.by)] =
                  [st |-> "ok", val |-> ExtractResponse(r), req |-> rq.n]]
    /\ UNCHANGED << connVars, mainLoop, runThread, nextW, handlerVars, wpc, exitPath, pendingIntr,
                    injected, sigCalls, loopQ, throwQ, askReq, askRes, neverPrompts,
                    ops, relayRaised, hasCommandOutput, peerVars >>

\* the round trip rq fails while awaited (transport error): the coroutine
\* re-raises (line 165) and the future gets the exception
RoundTripFails(rq) ==
    /\ DispatcherIdle
    /\ rq \in inflight
    /\ inflight' = inflight \ {rq}
    /\ fut' = [fut EXCEPT ![FutureOf(rq.by)] = [NoFuture EXCEPT !.st = "exc"]]
    /\ UNCHANGED << connVars, mainLoop, runThread, nextW, handlerVars, wpc, exitPath, pendingIntr,
                    injected, sigCalls, loopQ, throwQ, askReq, askRes, neverPrompts,
                    ops, relayRaised, hasCommandOutput, peerVars >>

\* base_wrapper.py run_in_thread: a throwaway thread runs its coroutine (a
\* streamComplete call) with asyncio.run; a failure is logged
run_in_thread(i, ok) ==
    /\ i \in 1..Len(throwQ)
    /\ throwQ' = SubSeq(throwQ, 1, i - 1) \o SubSeq(throwQ, i + 1, Len(throwQ))
    /\ peerComplete' = IF ok THEN [peerComplete EXCEPT ![throwQ[i].by] = @ + 1]
                       ELSE peerComplete
    /\ UNCHANGED << connVars, mainLoop, runThread, nextW, handlerVars, wpc, exitPath, pendingIntr,
                    injected, sigCalls, loopQ, askVars, ops, relayRaised,
                    hasCommandOutput, peerLog, peerErrors >>

\* the dispatcher is torn down: the captured loop is closed
LoopCloses ==
    /\ mainLoop = "live"
    /\ dpc = "idle"
    /\ mainLoop' = "closed"
    /\ UNCHANGED << connVars, runThread, nextW, handlerVars, wpc, exitPath, pendingIntr, injected,
                    sigCalls, loopQ, throwQ, askVars, ops, relayRaised,
                    hasCommandOutput, peerVars >>

\* -------------------------------------------- connection monitor and prompt
\* a peer attaches to the JRPC server
PeerAttaches ==
    /\ remotes < MaxPeers
    /\ churn < MaxChurn
    /\ remotes' = remotes + 1
    /\ churn' = churn + 1
    /\ UNCHANGED << coreVars, schedVars, emitVars, sessVars, cmdVars, lspVars, faults, isConnected, mpc, monErr, ppc, prompts, promptRes, console >>

\* a peer detaches
PeerDetaches ==
    /\ remotes > 0
    /\ churn < MaxChurn
    /\ remotes' = remotes - 1
    /\ churn' = churn + 1
    /\ UNCHANGED << coreVars, schedVars, emitVars, sessVars, cmdVars, lspVars, faults, isConnected, mpc, monErr, ppc, prompts, promptRes, console >>

\* variant: a failed read of the peer list counts as connected
has_remote_connections_on_error(readOk) == ~readOk \/ remotes > 0

\* _has_remote_connections(): bool(remotes and len(remotes) > 0); a failure
\* of get_remotes() (readOk = FALSE) is logged and gives False
has_remote_connections(readOk) == readOk /\ remotes > 0

\* what monErr says about the last poll
ReadFailed(e)  == e \in {"remotes", "both"}
PrintFailed(e) == e \in {"print", "both"}

\* variant: the monitor prints the notice of the state it is in on every poll
transition_notice_always(was, now) ==
    IF now THEN << "established" >> ELSE << "lost", "uri", "check" >>

\* variant: nothing is printed when the connection is lost
transition_notice_quiet_loss(was, now) ==
    IF was = now \/ ~now THEN << >> ELSE << "established" >>

\* check_connection, lines 86-96: what is printed when the state read before
\* the poll is `was` and the state set by the poll is `now`
transition_notice(was, now) ==
    IF was = now THEN << >>
    ELSE IF now THEN << "established" >>
    ELSE << "lost", "uri", "check" >>

\* check_connection, one pass of the loop body (lines 80-98).  printed is
\* how many of the notice's console.print calls are made; when it is fewer
\* than all of them the last one made raised.  The except branch logs, and
\* the loop goes on to time.sleep.
MonitorPoll(readOk, printed) ==
    /\ mpc = "poll"
    /\ LET was    == isConnected
           now    == has_remote_connections(readOk)
           notice == transition_notice(was, now)
       IN /\ printed \in 0..Len(notice)
          /\ notice # << >> => printed > 0
          /\ isConnected' = now
          /\ console' = console \o SubSeq(notice, 1, printed)
          /\ monErr' = IF ~readOk /\ printed < Len(notice) THEN "both"
                       ELSE IF ~readOk THEN "remotes"
                       ELSE IF printed < Len(notice) THEN "print"
                       ELSE "none"
          /\ faults' = IF ~readOk \/ printed < Len(notice) THEN faults + 1 ELSE faults
          /\ faults' <= MaxFaults
    /\ mpc' = "sleep"
    /\ UNCHANGED << coreVars, schedVars, emitVars, sessVars, cmdVars, lspVars, remotes, churn, ppc, prompts, promptRes >>

\* line 100: time.sleep(self.connection_status_check_interval) returns
MonitorWake ==
    /\ mpc = "sleep"
    /\ mpc' = "poll"
    /\ UNCHANGED << coreVars, schedVars, emitVars, sessVars, cmdVars, lspVars, remotes, churn, faults, isConnected, monErr, ppc, prompts,
                    promptRes, console >>

\* wrapped_prompt, lines 362-366: the first read of is_connected; when it is
\* False the three lines of guidance are printed
PromptEnter ==
    /\ ppc = "idle"
    /\ prompts < MaxPrompts
    /\ prompts' = prompts + 1
    /\ promptRes' = "none"
    /\ IF isConnected
         THEN /\ ppc' = "prompting"
              /\ UNCHANGED console
         ELSE /\ ppc' = "wait_check"
              /\ console' = console \o << "input_disabled", "uri", "waiting" >>
    /\ UNCHANGED << coreVars, schedVars, emitVars, sessVars, cmdVars, lspVars, remotes, churn, faults, isConnected, mpc, monErr >>

\* variant: the wait ends after one sleep, whatever is_connected says
PromptWaitCheckOnce ==
    /\ ppc = "wait_check"
    /\ ppc' = "prompting"
    /\ console' = console \o << "restored" >>
    /\ UNCHANGED << coreVars, schedVars, emitVars, sessVars, cmdVars, lspVars, remotes, churn, faults, isConnected, mpc, monErr, prompts, promptRes >>

\* line 369: `while not self.is_connected`; lines 378-381 when it is True
PromptWaitCheck ==
    /\ ppc = "wait_check"
    /\ IF isConnected
         THEN /\ ppc' = "prompting"
              /\ console' = console \o << "restored" >>
         ELSE /\ ppc' = "wait_sleep"
              /\ UNCHANGED console
    /\ UNCHANGED << coreVars, schedVars, emitVars, sessVars, cmdVars, lspVars, remotes, churn, faults, isConnected, mpc, monErr, prompts, promptRes >>

\* line 372: time.sleep(3) returns
PromptWaitWake ==
    /\ ppc = "wait_sleep"
    /\ ppc' = "wait_check"
    /\ UNCHANGED << coreVars, schedVars, emitVars, sessVars, cmdVars, lspVars, remotes, churn, faults, isConnected, mpc, monErr, prompts,
                    promptRes, console >>

\* Ctrl+C while wrapped_prompt waits.  Inside time.sleep the
\* KeyboardInterrupt is caught (lines 373-376): a line is printed and "exit"
\* returned.  Between two sleeps, at the loop test, it is outside the try
\* block and leaves wrapped_prompt as an exception.
PromptInterrupt ==
    /\ ppc \in {"wait_check", "wait_sleep"}
    /\ ppc' = "idle"
    /\ IF ppc = "wait_sleep"
         THEN /\ promptRes' = "exit"
              /\ console' = console \o << "interrupt" >>
         ELSE /\ promptRes' = "KeyboardInterrupt"
              /\ UNCHANGED console
    /\ UNCHANGED << coreVars, schedVars, emitVars, sessVars, cmdVars, lspVars, remotes, churn, faults, isConnected, mpc, monErr, prompts >>

\* line 381: original_prompt_method(*args, **kwargs) returns the input line
PromptReturns ==
    /\ ppc = "prompting"
    /\ ppc' = "idle"
    /\ promptRes' = "input"
    /\ UNCHANGED << coreVars, schedVars, emitVars, sessVars, cmdVars, lspVars, remotes, churn, faults, isConnected, mpc, monErr, prompts, console >>

\* ------------------------------------------------------------- Task Bridge
\* variant: a failure to create the throwaway thread reaches the caller
throwaway_raises(threadOk) ==
    IF threadOk
      THEN [path |-> "thread", handle |-> "none", st |-> "pending", raised |-> FALSE, logged |-> 0]
      ELSE [path |-> "thread", handle |-> "none", st |-> "dropped", raised |-> TRUE, logged |-> 0]

\* _safe_create_task, lines 56-71: the except RuntimeError branch.  threadOk
\* says whether threading.Thread(...).start() succeeds; when it does not the
\* error is logged, None is returned and the coroutine is never run
throwaway(threadOk) ==
    IF threadOk
      THEN [path |-> "thread", handle |-> "none", st |-> "pending", raised |-> FALSE, logged |-> 0]
      ELSE [path |-> "thread", handle |-> "none", st |-> "dropped", raised |-> FALSE, logged |-> 1]

\* _safe_create_task(coro), lines 46-71: the path taken and what is returned.
\* live is the test at line 48.  submitOk is FALSE when the loop is closed
\* between that test and run_coroutine_threadsafe (line 49), which then
\* raises RuntimeError('Event loop is closed'); the except clause at line 56
\* does not tell that RuntimeError from the one of get_running_loop (52).
safe_create_task_path(live, submitOk, hasRunningLoop, threadOk) ==
    IF live /\ submitOk
      THEN [path |-> "threadsafe", handle |-> "future", st |-> "pending", raised |-> FALSE, logged |-> 0]
    ELSE IF live THEN throwaway(threadOk)
    ELSE IF hasRunningLoop
      THEN [path |-> "local", handle |-> "task", st |-> "pending", raised |-> FALSE, logged |-> 0]
    ELSE throwaway(threadOk)

\* one call of _safe_create_task from a thread that has (hasRunningLoop) or
\* has not a running event loop of its own
SafeCreateTaskCall(hasRunningLoop, submitOk, threadOk) ==
    /\ Len(calls) < MaxCalls
    /\ submitOk \/ LoopLive
    /\ LET r == safe_create_task_path(LoopLive, submitOk, hasRunningLoop, threadOk)
       IN /\ calls' = Append(calls, [path |-> r.path, handle |-> r.handle, st |-> r.st,
                                     raised |-> r.raised, hasLoop |-> hasRunningLoop])
          /\ schedLog' = schedLog + r.logged
    /\ mainLoop' = IF LoopLive /\ ~submitOk THEN "closed" ELSE mainLoop
    /\ UNCHANGED << runThread, nextW, dpc, stopTid, ret,
                    wpc, exitPath, pendingIntr, injected, sigCalls,
                    loopQ, throwQ, inflight, fut, askReq, askRes, neverPrompts, ops,
                    relayRaised, hasCommandOutput, peerLog, peerComplete, peerErrors,
                    remotes, churn, faults, isConnected, mpc, monErr, ppc, prompts,
                    promptRes, console, emitVars, sessVars, cmdVars, lspVars >>

\* the work of call i is run: by the dispatcher (which must be live), by the
\* caller's own loop, or by the throwaway thread's asyncio.run (line 61).
\* A failure is kept in the future or task; in the throwaway thread it is
\* logged (lines 62-63).
WorkRuns(i, ok) ==
    /\ i \in DOMAIN calls
    /\ calls[i].st = "pending"
    /\ calls[i].path = "threadsafe" => LoopLive
    /\ calls' = [calls EXCEPT ![i].st = IF ok THEN "done" ELSE "failed"]
    /\ schedLog' = IF ~ok /\ calls[i].path = "thread" THEN schedLog + 1 ELSE schedLog
    /\ UNCHANGED << coreVars, remotes, churn, faults, isConnected, mpc, monErr, ppc, prompts,
                    promptRes, console, emitVars, sessVars, cmdVars, lspVars >>

\* ------------------------------------------------------------ specifications
\* the frame of task_to_run_in_thread around the run operation
Lifecycle(w) ==
    \/ RunReturns(w)
    \/ RunRaises(w)
    \/ \E ok \in BOOLEAN : SignalInTry(w, ok)
    \/ \E ok \in BOOLEAN : SignalInExcept(w, ok)
    \/ FinallyClear(w)

\* Run Executor and Cancellation Controller: runs that neither ask nor emit
Next ==
    \/ \E m \in Messages : RunSpawn(m)
    \/ RunReturn
    \/ StopCheck
    \/ StopIdent
    \/ StopInject
    \/ HandlerReturns
    \/ \E w \in Workers : Lifecycle(w)
    \/ \E w \in Workers, absorb \in BOOLEAN : Interrupt(w, absorb)
    \/ \E ok \in BOOLEAN : DeliverComplete(ok)
    \/ \E i \in DOMAIN throwQ, ok \in BOOLEAN : run_in_thread(i, ok)

Spec == Init /\ [][Next]_vars

\* steps the dispatcher thread takes by itself once work is waiting for it
DispatcherStep ==
    \/ RunReturn
    \/ HandlerReturns
    \/ \E ok \in BOOLEAN : async_confirmation_request(ok)

\* the peer answers a confirmation request, or the round trip fails
PeerStep ==
    \/ \E rq \in inflight, r \in Replies : PeerReply(rq, r)
    \/ \E rq \in inflight : RoundTripFails(rq)

\* Confirmation Channel: runs in progress that ask
NextAsk ==
    \/ \E m \in Messages : RunSpawn(m)
    \/ DispatcherStep
    \/ PeerStep
    \/ \E w \in Workers, q \in QuestionIds, an \in BOOLEAN, v \in LocalAnswers :
          confirm_ask_wrapper(w, q, an, v)
    \/ \E w \in Workers, v \in LocalAnswers, histOk \in BOOLEAN : AskResume(w, v, histOk)
    \/ LoopCloses

SpecAsk == Init /\ [][NextAsk]_vars

\* The dispatcher thread and the peer keep running, and a worker whose
\* future is resolved is woken; nothing is assumed about when a run returns.
FairAsk ==
    /\ SpecAsk
    /\ WF_vars(DispatcherStep)
    /\ WF_vars(PeerStep)
    /\ \A w \in Workers : WF_vars(\E v \in LocalAnswers, histOk \in BOOLEAN : AskResume(w, v, histOk))

\* Stream Relay: runs that emit chunks and command output
NextRelay ==
    \/ \E m \in Messages : nextW < MaxRelayRuns /\ RunSpawn(m)
    \/ RunReturn
    \/ HandlerReturns
    \/ \E w \in Workers : Lifecycle(w)
    \/ \E w \in Workers, final \in BOOLEAN : stream_output_wrapper(w, final)
    \/ \E w \in Workers : tool_output_wrapper(w)
    \/ \E ok, errOk \in BOOLEAN : send_stream_update(ok, errOk)
    \/ \E ok \in BOOLEAN : send_to_webapp_command(ok)
    \/ \E ok \in BOOLEAN : DeliverComplete(ok)
    \/ \E i \in DOMAIN throwQ, ok \in BOOLEAN : run_in_thread(i, ok)
    \/ LoopCloses

SpecRelay == Init /\ [][NextRelay]_vars

\* Stream Relay with the relay of completed assistant messages
NextEmit ==
    \/ \E m \in Messages : nextW < MaxRelayRuns /\ RunSpawn(m)
    \/ RunReturn
    \/ HandlerReturns
    \/ \E w \in Workers : Lifecycle(w)
    \/ \E w \in Workers, final \in BOOLEAN : stream_output_wrapper(w, final)
    \/ \E w \in Workers : tool_output_wrapper(w)
    \/ \E w \in Workers : assistant_output_wrapper(w)
    \/ \E w \in Workers : AssistantResume(w)
    \/ \E w \in Workers : AssistantTimeout(w)
    \/ \E ok, errOk \in BOOLEAN : send_stream_update(ok, errOk)
    \/ \E ok, errOk \in BOOLEAN : send_to_webapp(ok, errOk)
    \/ \E ok \in BOOLEAN : send_to_webapp_command(ok)
    \/ \E ok \in BOOLEAN : DeliverComplete(ok)
    \/ \E i \in DOMAIN throwQ, ok \in BOOLEAN : run_in_thread(i, ok)
    \/ LoopCloses

SpecEmit == Init /\ [][NextEmit]_vars

\* steps of an RPC handler the dispatcher thread is inside
HandlerStep ==
    \/ RunReturn
    \/ StopIdent
    \/ StopInject
    \/ HandlerReturns

\* the dispatcher runs the coroutine at the head of its queue up to its
\* first await
CoroutineStep ==
    \/ \E ok, errOk \in BOOLEAN : send_stream_update(ok, errOk)
    \/ \E ok \in BOOLEAN : DeliverComplete(ok)
    \/ \E ok \in BOOLEAN : async_confirmation_request(ok)

\* Runs that ask and relay chunks while start and stop calls arrive, seen
\* from the dispatcher (what an interrupted worker does next is left out,
\* and one question and one answer stand for all)
NextDispatch ==
    \/ \E m \in Messages : nextW < MaxRelayRuns /\ RunSpawn(m)
    \/ StopCheck
    \/ HandlerStep
    \/ CoroutineStep
    \/ \E rq \in inflight : PeerReply(rq, Bare("True"))
    \/ \E rq \in inflight : RoundTripFails(rq)
    \/ \E w \in Workers : RunReturns(w)
    \/ \E w \in Workers : SignalInTry(w, TRUE)
    \/ \E w \in Workers : FinallyClear(w)
    \/ \E w \in Workers : confirm_ask_wrapper(w, << "Q1", "S1" >>, FALSE, "True")
    \/ \E w \in Workers : AskResume(w, "True", TRUE)
    \/ \E w \in Workers, final \in BOOLEAN : stream_output_wrapper(w, final)

SpecDispatch == Init /\ [][NextDispatch]_vars

\* Confirmation Channel and Cancellation Controller: runs that ask while stop
\* calls arrive and the dispatcher may be closed (one question and one
\* answer stand for all)
NextAskCancel ==
    \/ \E m \in Messages : nextW < MaxRelayRuns /\ RunSpawn(m)
    \/ StopCheck
    \/ HandlerStep
    \/ \E ok \in BOOLEAN : async_confirmation_request(ok)
    \/ \E ok \in BOOLEAN : DeliverComplete(ok)
    \/ \E rq \in inflight : PeerReply(rq, Bare("True"))
    \/ \E rq \in inflight : RoundTripFails(rq)
    \/ \E w \in Workers : Lifecycle(w)
    \/ \E w \in Workers, absorb \in BOOLEAN : Interrupt(w, absorb)
    \/ \E w \in Workers : confirm_ask_wrapper(w, << "Q1", "S1" >>, FALSE, "True")
    \/ \E w \in Workers : AskResume(w, "True", TRUE)
    \/ \E i \in DOMAIN throwQ, ok \in BOOLEAN : run_in_thread(i, ok)
    \/ LoopCloses

SpecAskCancel == Init /\ [][NextAskCancel]_vars

\* Stream Relay, several runs in progress emitting at once
NextChunks ==
    \/ \E m \in Messages : RunSpawn(m)
    \/ RunReturn
    \/ HandlerReturns
    \/ \E w \in Workers, final \in BOOLEAN : stream_output_wrapper(w, final)
    \/ \E w \in Workers : tool_output_wrapper(w)
    \/ \E ok, errOk \in BOOLEAN : send_stream_update(ok, errOk)
    \/ \E ok \in BOOLEAN : send_to_webapp_command(ok)
    \/ LoopCloses

SpecChunks == Init /\ [][NextChunks]_vars

\* Run Executor: start calls with local-only commands and with other messages
NextTerminal ==
    \/ \E m \in Messages, noticeOk, completeOk \in BOOLEAN : RunTerminal(m, noticeOk, completeOk)
    \/ \E m \in Messages : RunSpawn(m)
    \/ RunReturn
    \/ HandlerReturns
    \/ \E w \in Workers : Lifecycle(w)
    \/ \E ok \in BOOLEAN : DeliverNotice(ok)
    \/ \E ok \in BOOLEAN : DeliverComplete(ok)
    \/ \E i \in DOMAIN throwQ, ok \in BOOLEAN : run_in_thread(i, ok)

SpecTerminal == Init /\ [][NextTerminal]_vars

\* Task Bridge: calls of _safe_create_task from any thread, in any state of
\* the captured loop
NextSched ==
    \/ \E hasRunningLoop, submitOk, threadOk \in BOOLEAN :
          SafeCreateTaskCall(hasRunningLoop, submitOk, threadOk)
    \/ \E i \in 1..MaxCalls, ok \in BOOLEAN : WorkRuns(i, ok)
    \/ LoopCloses

SpecSched == Init /\ [][NextSched]_vars


\* Connection Monitor and console prompt
NextConn ==
    \/ PeerAttaches
    \/ PeerDetaches
    \/ \E readOk \in BOOLEAN, printed \in 0..3 : MonitorPoll(readOk, printed)
    \/ MonitorWake
    \/ PromptEnter
    \/ PromptWaitCheck
    \/ PromptWaitWake
    \/ PromptInterrupt
    \/ PromptReturns

SpecConn == Init /\ [][NextConn]_vars

\* ------------------------------------------------------------------ claims
Exited(w) == wpc[w] = "exited"

\* the run ended by itself: the run operation returned or raised, and no
\* interrupt was raised in the worker
CompletedNaturally(w) == Exited(w) /\ exitPath[w] \in {"returned", "raised"}

\* a step in which the dispatcher enters stop()
StopCalled == dpc = "idle" /\ dpc' \in {"stop_checked", "stop_return"}

NothingToCancel == create_error_response("ProcessError", "No active thread to interrupt")

\* C1: every worker that has exited has called signal_completion exactly
\* once, whichever way its run ended (return, exception, injected interrupt).
C1_ExactlyOnceCompletion ==
    \A w \in Workers : Exited(w) => sigCalls[w] = 1

\* C2: a stop() that injects answers with the interrupt-sent status, the
\* interrupt is pending only on a thread it was registered on, and the run
\* it was sent to ends with exactly one completion signal.
C2_CancelActiveRun ==
    /\ dpc = "stop_return" /\ ~IsErrorResponse(ret)
          => ret = [status |-> "interrupt_sent_to_thread"]
    /\ \A w \in Workers : pendingIntr[w] => injected[w]
    /\ \A w \in Workers : injected[w] /\ Exited(w) => sigCalls[w] = 1

C4_CancelWithoutRun ==
    [][ (StopCalled /\ runThread = NoThread)
          => /\ dpc' = "stop_return"
             /\ IsErrorResponse(ret')
             /\ ret'.type = "ProcessError"
             /\ UNCHANGED << mainLoop, runThread, nextW, stopTid, wpc, exitPath,
                             pendingIntr, injected, sigCalls, loopQ, throwQ, askVars,
                             ops, relayRaised, hasCommandOutput, peerVars >> ]_vars

\* a stop() is returning its error value and no run was ever started
C4_Witness ==
    /\ dpc = "stop_return"
    /\ IsErrorResponse(ret)
    /\ nextW = 0

\* C5: once run_wrapper has spawned the worker, its return is enabled
\* whatever the worker does, and what it returns is the "coder.run initiated"
\* status with the thread's name; the spawn step itself records the new
\* worker and starts it.
C5_StartReturnsAtOnce ==
    /\ [](dpc = "run_spawned" => ENABLED RunReturn)
    /\ [][ (nextW' # nextW)
             => /\ dpc' = "run_spawned"
                /\ runThread' = nextW'
                /\ wpc'[nextW'] = "run" ]_vars
    /\ [][ (dpc = "run_spawned" /\ dpc' # dpc)
             => /\ dpc' = "run_return"
                /\ ret' = [status |-> "coder.run initiated",
                           thread_name |-> "CoderRunThread"] ]_vars

\* run_wrapper is returning while the worker it spawned is still inside the
\* run operation
C5_Witness ==
    /\ dpc = "run_return"
    /\ ret = [status |-> "coder.run initiated", thread_name |-> "CoderRunThread"]
    /\ runThread # NoThread
    /\ wpc[runThread] = "run"

\* C6: an ask whose (question, subject) pair is in the never-ask set returns
\* False at once: nothing is submitted to the dispatcher, no request goes to
\* the peer and the worker does not wait.  A "d" reply to an ask made with
\* allow_never puts the pair in the set, and the set never shrinks, so every
\* later ask for that pair is answered this way.
AskCalled(w) == askReq'[w] # askReq[w]
C6_NeverAsk ==
    /\ [][\A w \in Workers :
            AskCalled(w) /\ askReq'[w].q \in neverPrompts
              => /\ askRes'[w] = [via |-> "never", val |-> Bare("False"), req |-> 0]
                 /\ loopQ' = loopQ /\ inflight' = inflight /\ fut' = fut
                 /\ wpc'[w] = "run"]_vars
    /\ [][\A w \in Workers :
            /\ wpc[w] = "ask_wait" /\ wpc'[w] # "ask_wait"
            /\ fut[w].st = "ok" /\ fut[w].val = Bare("d") /\ askReq[w].allow_never
            => askReq[w].q \in neverPrompts']_vars
    /\ [][neverPrompts \subseteq neverPrompts']_vars

\* an ask was answered from the never-ask set, which a remote "d" reply to
\* another worker's ask for the same pair had filled
C6_Witness ==
    \E w, x \in Workers :
        /\ w # x
        /\ askRes[w].via = "never"
        /\ askRes[x].via = "remote" /\ askReq[x].q = askReq[w].q
        /\ askReq[x].n < askReq[w].n

\* C7: a worker is resumed only by the reply to its own request: the future
\* a worker waits on is resolved only by the round trip of the request that
\* worker made, and the answer it returns came from that request.
C7_NoCrossDelivery ==
    \A w \in Workers :
        /\ fut[w].st = "ok" => wpc[w] = "ask_wait" /\ fut[w].req = askReq[w].n
        /\ fut[w].st = "exc" => wpc[w] = "ask_wait"
        /\ askRes[w].via = "remote" => askRes[w].req = askReq[w].n
        /\ \A rq \in inflight : rq.by = w => wpc[w] = "ask_wait" /\ rq.n = askReq[w].n

\* two asks for different pairs overlapped and the peer answered the later
\* request first
C7_Witness ==
    \E w, x \in Workers :
        /\ wpc[w] = "ask_wait" /\ wpc[x] = "ask_wait"
        /\ askReq[w].q # askReq[x].q
        /\ askReq[w].n < askReq[x].n
        /\ fut[w].st = "pending" /\ fut[x].st = "ok"

\* C8: while a worker waits in ask only that worker is blocked: the
\* dispatcher can take the next queued coroutine and the peer's answer can
\* be delivered; a worker whose reply has arrived resumes with that reply
\* (it returns it, or it has recorded the "d" it received in the never-ask
\* set), and every waiting worker resumes unless the dispatcher is closed
\* first.
C8_OnlyWorkerBlocks ==
    /\ [](\A w \in Workers :
            wpc[w] = "ask_wait" /\ dpc = "idle" /\ mainLoop = "live"
              => /\ loopQ # << >> => ENABLED DispatcherStep
                 /\ inflight # {} => ENABLED PeerStep)
    /\ \A w \in Workers :
          (wpc[w] = "ask_wait" /\ fut[w].st = "ok")
            ~> /\ wpc[w] = "run"
               /\ \/ askRes[w].via = "remote" /\ askRes[w].req = askReq[w].n
                  \/ /\ askRes[w].via = "local"
                     /\ askReq[w].allow_never /\ askReq[w].q \in neverPrompts
    /\ \A w \in Workers :
          (wpc[w] = "ask_wait") ~> (wpc[w] = "run" \/ mainLoop = "closed")

\* a worker waits for the peer's reply to its request while the dispatcher
\* is inside the handler that starts the next run
C8_Witness ==
    \E rq \in inflight :
        /\ wpc[rq.by] = "ask_wait" /\ fut[rq.by].st = "pending"
        /\ dpc = "run_spawned" /\ runThread # rq.by

\* C9: when the round trip fails, or no live dispatcher exists, ask returns
\* what the local confirmation routine returns; the worker goes on inside
\* its run (nothing is raised into it) and the never-ask set is unchanged.
C9_LocalFallback ==
    /\ [][\A w \in Workers :
            wpc[w] = "ask_wait" /\ fut[w].st = "exc" /\ wpc'[w] # "ask_wait"
              => /\ wpc'[w] = "run"
                 /\ askRes'[w].via = "local" /\ askRes'[w].val \in {Bare(v) : v \in LocalAnswers}
                 /\ neverPrompts' = neverPrompts]_vars
    /\ [][\A w \in Workers :
            AskCalled(w) /\ ~LoopLive /\ askReq'[w].q \notin neverPrompts
              => /\ wpc'[w] = "run"
                 /\ askRes'[w].via = "local" /\ askRes'[w].val \in {Bare(v) : v \in LocalAnswers}
                 /\ neverPrompts' = neverPrompts
                 /\ loopQ' = loopQ]_vars

\* an ask submitted to a live dispatcher came back with the local answer
C9_Witness ==
    \E w \in Workers :
        /\ mainLoop = "live"
        /\ askRes[w].via = "local"
        /\ wpc[w] = "run"

\* C10: when every remote call raises, no emit call raises into the run
\* operation, and every worker that left its run without being interrupted
\* called signal_completion exactly once.
NoRemoteSuccess ==
    /\ peerLog = << >>
    /\ peerErrors = 0
    /\ \A w \in Workers : peerComplete[w] = 0
C10_EmitNeverRaises ==
    NoRemoteSuccess =>
        /\ relayRaised = {}
        /\ \A w \in Workers : Exited(w) => sigCalls[w] = 1 /\ exitPath[w] # "interrupt"

\* a worker emitted a chunk and command output, every delivery failed, and
\* the worker finished its run
C10_Witness ==
    /\ NoRemoteSuccess
    /\ mainLoop = "live"
    /\ nextW = 1 /\ Exited(1) /\ sigCalls[1] = 1
    /\ ops >= 2 /\ hasCommandOutput
    /\ loopQ = << >>

\* C11: the peer receives the streamWrite calls in the order in which the
\* chunks were submitted, whichever threads submitted them: what the peer
\* has received is in submission order, everything still queued was
\* submitted later and is queued in submission order, so no chunk of a
\* message can arrive after the final chunk submitted after it.
Writes(log) == SelectSeq(log, LAMBDA e : e.role = "assistant")
InSubmissionOrder(seq) ==
    \A i, j \in DOMAIN seq : i < j => seq[i].id < seq[j].id
C11_ChunkOrder ==
    /\ InSubmissionOrder(peerLog)
    /\ InSubmissionOrder(loopQ)
    /\ \A i \in DOMAIN peerLog, j \in DOMAIN loopQ : peerLog[i].id < loopQ[j].id
    /\ \A j \in DOMAIN peerLog :
          peerLog[j].final =>
             \A i \in DOMAIN peerLog :
                 i > j /\ peerLog[i].by = peerLog[j].by => peerLog[i].id > peerLog[j].id

\* two chunks submitted from two different threads, final on the second
\* only, have both reached the peer
C11_Witness ==
    /\ Len(Writes(peerLog)) = 2
    /\ peerLog[1].by # peerLog[2].by
    /\ ~peerLog[1].final /\ peerLog[2].final

\* C12: a start call whose message, stripped of surrounding whitespace, is
\* exactly one entry of the command table submits one final assistant
\* notice, then signals completion once, starts no worker and leaves
\* _current_run_thread alone; a message with a suffix, or one that is not
\* a string, is not matched and starts a worker.
Spaces == { << >>, <<"sp">>, <<"sp", "sp">> }
IsLocalOnly(m) ==
    /\ m.isStr
    /\ \E a, b \in Spaces, c \in TerminalCommands : m.toks = a \o <<c>> \o b
StartHandled == dpc = "idle" /\ dpc' \in {"run_return", "run_spawned"}
C12_LocalOnlyCommand ==
    /\ [](\A m \in Messages :
            /\ DispatcherIdle /\ ops < MaxOps
                 => (IsLocalOnly(m) <=> \E n, c \in BOOLEAN : ENABLED RunTerminal(m, n, c))
            /\ DispatcherIdle /\ nextW < MaxRuns
                 => (~IsLocalOnly(m) <=> ENABLED RunSpawn(m)))
    /\ [][StartHandled /\ dpc' = "run_return"
            => /\ ~IsErrorResponse(ret')
               /\ ret'.status = "terminal_command_detected"
               /\ IsLocalOnly(ret'.command)
               /\ \/ loopQ' = loopQ \o << Task("notice", 0, 0, TRUE), Task("complete", 0, 0, FALSE) >>
                  \/ loopQ' = loopQ \o << Task("notice", 0, 0, TRUE) >>
               /\ throwQ' = throwQ
               /\ nextW' = nextW /\ wpc' = wpc /\ runThread' = runThread]_vars
    /\ [][StartHandled /\ dpc' = "run_spawned"
            => nextW' = nextW + 1 /\ wpc'[nextW'] = "run" /\ loopQ' = loopQ]_vars

\* C13: the underlying prompt is called only by a step that read
\* is_connected as True; a call that reads False prints the guidance once
\* and waits, printing nothing more while it waits; an interrupt during the
\* wait ends the call with "exit" and the underlying prompt is not called.
PromptWaiting == ppc \in {"wait_check", "wait_sleep"}
Guidance == << "input_disabled", "uri", "waiting" >>
PromptGate ==
    /\ [][ppc # "prompting" /\ ppc' = "prompting" => isConnected]_vars
    /\ [][ppc = "idle" /\ ppc' # "idle" /\ ~isConnected
            => ppc' = "wait_check" /\ console' = console \o Guidance]_vars
    /\ [][PromptWaiting /\ ppc' \in {"wait_check", "wait_sleep"}
            => \A i \in DOMAIN console' : i > Len(console) => console'[i] \notin {"input_disabled", "waiting"}]_vars
C13_PromptWaitsForConnection ==
    /\ PromptGate
    /\ [][PromptWaiting /\ ppc' = "idle" => promptRes' = "exit"]_vars

\* C13 as the code has it: an interrupt that arrives inside time.sleep makes
\* the call return "exit"; one that arrives between two sleeps leaves the
\* call as KeyboardInterrupt; in both cases the underlying prompt is not called.
C13_PromptWaitsForConnection_Amended ==
    /\ PromptGate
    /\ [][PromptWaiting /\ ppc' = "idle"
            => /\ promptRes' \in {"exit", "KeyboardInterrupt"}
               /\ ppc = "wait_sleep" <=> promptRes' = "exit"]_vars
    /\ [](promptRes \in {"exit", "KeyboardInterrupt"} => ppc # "prompting")

\* a prompt call found no connection, waited, and was interrupted in its sleep
C13_Witness ==
    /\ promptRes = "exit"
    /\ ppc = "idle"
    /\ ~isConnected

\* C14: when a reply comes back, ask adds the pair to the never-ask set and
\* returns the negative answer exactly when the reply is the "d" marker and
\* allow_never is set; in every other case it returns the reply as it is and
\* leaves the never-ask set unchanged.
Replied(w) == wpc[w] = "ask_wait" /\ fut[w].st = "ok" /\ wpc'[w] # "ask_wait"
C14_NeverReply ==
    [][\A w \in Workers :
         Replied(w) =>
           IF fut[w].val = Bare("d") /\ askReq[w].allow_never
             THEN /\ neverPrompts' = neverPrompts \cup {askReq[w].q}
                  /\ askRes'[w].val = Bare("False")
             ELSE /\ neverPrompts' = neverPrompts
                  /\ askRes'[w].val = fut[w].val]_vars

\* the same, with the reply's two outcomes on the "d" branch told apart:
\* the pair is added in both; the negative answer is returned when the
\* history line was written, the local routine's answer when it was not
C14_NeverReply_Amended ==
    [][\A w \in Workers :
         Replied(w) =>
           IF fut[w].val = Bare("d") /\ askReq[w].allow_never
             THEN /\ neverPrompts' = neverPrompts \cup {askReq[w].q}
                  /\ \/ askRes'[w] = [via |-> "remote", val |-> Bare("False"), req |-> fut[w].req]
                     \/ askRes'[w].via = "local"
             ELSE /\ neverPrompts' = neverPrompts
                  /\ askRes'[w] = [via |-> "remote", val |-> fut[w].val, req |-> fut[w].req]]_vars

\* a "d" reply to an ask made without allow_never was returned as it is, and
\* a "d" reply to an ask made with allow_never put its pair in the set
C14_Witness ==
    \E w, x \in Workers :
        /\ w # x
        /\ ~askReq[w].allow_never /\ askRes[w] = [via |-> "remote", val |-> Bare("d"), req |-> askReq[w].n]
        /\ askReq[w].q \notin neverPrompts
        /\ askReq[x].allow_never /\ askRes[x].via = "remote" /\ askRes[x].val = Bare("False")
        /\ askReq[x].q \in neverPrompts

\* C15: a worker is recorded in _current_run_thread by the step that starts
\* it; the step in which the recorded worker exits (after a return, an
\* exception or an injected interrupt) clears _current_run_thread; so
\* _current_run_thread is empty whenever no worker is running.
WorkerStarts(w) == wpc[w] = "unborn" /\ wpc'[w] # "unborn"
WorkerExits(w) == wpc[w] # "exited" /\ wpc'[w] = "exited"
NoWorkerRunning == \A w \in Workers : ~Alive(w)
C15_RunHandle ==
    /\ [][\A w \in Workers : WorkerStarts(w) => runThread' = w]_vars
    /\ [][\A w \in Workers : WorkerExits(w) /\ runThread = w => runThread' = NoThread]_vars
    /\ [](NoWorkerRunning => runThread = NoThread)

\* the same for a worker whose finally block runs to its end: an interrupt
\* raised inside the finally block ends the thread before the clearing
\* statement and leaves _current_run_thread naming the dead thread
C15_RunHandle_Amended ==
    /\ [][\A w \in Workers : WorkerStarts(w) => runThread' = w]_vars
    /\ [][\A w \in Workers :
            WorkerExits(w) /\ runThread = w /\ ~(wpc[w] = "finally" /\ pendingIntr[w] /\ ~pendingIntr'[w] /\ exitPath'[w] = "interrupt" /\ runThread' = w)
              => runThread' = NoThread]_vars
    /\ [](NoWorkerRunning /\ runThread # NoThread
            => Exited(runThread) /\ exitPath[runThread] = "interrupt")

\* the only run there was got the interrupt before its finally block, and
\* the finally block cleared its handle
C15_Witness ==
    /\ nextW = 1 /\ Exited(1)
    /\ exitPath[1] = "interrupt"
    /\ runThread = NoThread

\* C16: run_wrapper called while a run is active starts no worker and
\* returns an error response to its caller.
RunActive == \E x \in Workers : Alive(x)
StartCalled == dpc = "idle" /\ dpc' \in {"run_spawned", "run_return"}
C16_StartWhileActive ==
    /\ [][StartCalled /\ RunActive
            => /\ \A w \in Workers : ~WorkerStarts(w)
               /\ runThread' = runThread]_vars
    /\ [][/\ dpc = "run_spawned" /\ dpc' = "run_return"
          /\ \E x \in Workers : x # runThread /\ Alive(x)
          => IsErrorResponse(ret')]_vars

\* run_wrapper has returned for a second run while the first is still running
C16_Witness ==
    /\ dpc = "run_return"
    /\ nextW = 2
    /\ Alive(1)

\* C17: _safe_create_task picks its path in strict priority order: with a
\* captured loop that is not closed the work is submitted to it and a future
\* is returned; otherwise, when the calling thread has a running loop, the
\* work is scheduled on that loop; otherwise a throwaway thread is started
\* and nothing is returned.  The call returns without waiting for any work.
Scheduled == Len(calls') = Len(calls) + 1
LastCall == calls'[Len(calls')]
ReturnsAtOnce ==
    /\ [][Scheduled => /\ LastCall.st \in {"pending", "dropped"}
                       /\ SubSeq(calls', 1, Len(calls)) = calls]_vars
    /\ [](Len(calls) < MaxCalls => ENABLED SafeCreateTaskCall(FALSE, TRUE, TRUE))
C17_SchedulePriority ==
    /\ [][Scheduled =>
            IF mainLoop' = "live" THEN LastCall.path = "threadsafe" /\ LastCall.handle = "future"
            ELSE IF LastCall.hasLoop THEN LastCall.path = "local"
            ELSE LastCall.path = "thread" /\ LastCall.handle = "none"]_vars
    /\ ReturnsAtOnce

\* the same, where a loop that is closed while the call is being made sends
\* the work to a throwaway thread whether or not the caller has a loop
C17_SchedulePriority_Amended ==
    /\ [][Scheduled =>
            IF mainLoop' = "live" THEN LastCall.path = "threadsafe" /\ LastCall.handle = "future"
            ELSE IF mainLoop = "live" THEN LastCall.path = "thread" /\ LastCall.handle = "none"
            ELSE IF LastCall.hasLoop THEN LastCall.path = "local"
            ELSE LastCall.path = "thread" /\ LastCall.handle = "none"]_vars
    /\ ReturnsAtOnce

\* each of the three paths was taken once, and the work submitted to the
\* dispatcher is still waiting after two later calls have returned
C17_Witness ==
    /\ Len(calls) = 3
    /\ calls[1].path = "threadsafe" /\ calls[1].st = "pending"
    /\ calls[2].path = "local"
    /\ calls[3].path = "thread" /\ calls[3].handle = "none"

\* C18: on the throwaway-thread path a failure of the work, and a failure to
\* start the thread, are logged and nothing else: the call returns None to
\* its caller and no exception reaches the caller.
C18_ThrowawayFailuresLogged ==
    /\ [][Scheduled /\ LastCall.path = "thread"
            => /\ ~LastCall.raised
               /\ LastCall.handle = "none"
               /\ schedLog' = schedLog + (IF LastCall.st = "dropped" THEN 1 ELSE 0)]_vars
    /\ [][\A i \in DOMAIN calls :
            calls[i].path = "thread" /\ calls[i].st = "pending" /\ i \in DOMAIN calls' /\ calls'[i].st = "failed"
              => /\ schedLog' = schedLog + 1
                 /\ calls' = [calls EXCEPT ![i].st = "failed"]]_vars
    /\ [](\A i \in DOMAIN calls : ~calls[i].raised)

\* one throwaway thread could not be started and the work of another failed;
\* both were logged and both calls returned
C18_Witness ==
    \E i, j \in DOMAIN calls :
        /\ calls[i].path = "thread" /\ calls[i].st = "dropped"
        /\ calls[j].path = "thread" /\ calls[j].st = "failed"
        /\ schedLog = 2
        /\ ~calls[i].raised /\ ~calls[j].raised

\* C19: every poll sets is_connected to whether a peer is attached; a poll
\* prints a notice exactly when the state it sets differs from the state
\* before it; the monitor goes on polling after an error.
PollStep == mpc = "poll" /\ mpc' = "sleep"
PollNotices ==
    /\ [][PollStep => (console' # console <=> isConnected' # isConnected)]_vars
    /\ [](mpc = "sleep" => ENABLED MonitorWake)
    /\ [](mpc = "poll" => ENABLED MonitorPoll(TRUE, Len(transition_notice(isConnected, remotes > 0))))
C19_MonitorTransitions ==
    /\ [][PollStep => isConnected' = (remotes > 0)]_vars
    /\ PollNotices

\* C19 as the code has it: a poll whose read of the peer list fails sets
\* is_connected to False.
C19_MonitorTransitions_Amended ==
    /\ [][PollStep => isConnected' = (remotes > 0 /\ ~ReadFailed(monErr'))]_vars
    /\ PollNotices

\* the monitor printed both notices and is polling again after a poll that
\* ended in an error
C19_Witness ==
    /\ \E i, j \in DOMAIN console : i < j /\ console[i] = "lost" /\ console[j] = "established"
    /\ monErr # "none"
    /\ mpc = "poll"

\* C20: the console prints guidance when the monitor flips is_connected to
\* False and nothing when it flips back to True.
LossGuidance ==
    [][PollStep /\ isConnected /\ ~isConnected'
         => /\ Len(console') > Len(console)
            /\ console'[Len(console) + 1] = "lost"
            /\ ~PrintFailed(monErr') => console' = console \o << "lost", "uri", "check" >>]_vars
C20_SilentResume ==
    /\ LossGuidance
    /\ [][PollStep /\ ~isConnected /\ isConnected' => console' = console]_vars
    /\ [][ppc = "wait_check" /\ ppc' = "prompting" => console' = console]_vars

\* C20 as the code has it: the flip back to True prints one line, and a
\* prompt that was waiting prints one line when it sees the connection.
C20_SilentResume_Amended ==
    /\ LossGuidance
    /\ [][PollStep /\ ~isConnected /\ isConnected' => console' = console \o << "established" >>]_vars
    /\ [][ppc = "wait_check" /\ ppc' = "prompting" => console' = console \o << "restored" >>]_vars

\* the connection was lost and came back while a prompt call was waiting
C20_Witness ==
    /\ \E i, j, k \in DOMAIN console :
          /\ i < j /\ j < k
          /\ console[i] = "lost" /\ console[j] = "established" /\ console[k] = "restored"
    /\ ppc = "prompting"

\* --------------------------------------------------------- lsp_protocol.py
\* send_request(method, params), lines 115-131, up to the wait: the next id
\* is taken, its future is entered in pending_requests, and the request is
\* written. sendOk FALSE: _send_message raises (no writer, or the write
\* fails) and the exception leaves send_request before the try block.
send_request(sendOk) ==
    /\ request_id < MaxRequests
    /\ request_id' = request_id + 1
    /\ pending_requests' = pending_requests \cup {request_id + 1}
    /\ lspReq' = [lspReq EXCEPT ![request_id + 1] =
                     [st |-> IF sendOk THEN "waiting" ELSE "send_failed", got |-> 0]]
    /\ UNCHANGED << coreVars, monVars, schedVars, emitVars, sessVars, cmdVars, readLoop >>

\* _handle_message(message) for a message that carries an id, lines 88-102,
\* as called by _read_loop: the entry of that id, if any, is popped and its
\* future completed. A future whose wait timed out was cancelled by
\* wait_for; completing it raises InvalidStateError, which ends _read_loop
\* (lines 82-84).
handle_message(id, isError) ==
    /\ readLoop
    /\ lspReq[id].st \notin {"none", "send_failed"}
    /\ IF id \in pending_requests
         THEN /\ pending_requests' = pending_requests \ {id}
              /\ IF lspReq[id].st = "waiting"
                   THEN /\ lspReq' = [lspReq EXCEPT ![id] =
                                        [st |-> IF isError THEN "error" ELSE "result", got |-> id]]
                        /\ UNCHANGED readLoop
                   ELSE /\ readLoop' = FALSE
                        /\ UNCHANGED lspReq
         ELSE UNCHANGED << pending_requests, lspReq, readLoop >>
    /\ UNCHANGED << coreVars, monVars, schedVars, emitVars, sessVars, cmdVars, request_id >>

\* send_request, lines 136-139: the wait of request id times out; the entry
\* popped is the one of self.request_id
RequestTimeout(id) ==
    /\ lspReq[id].st = "waiting"
    /\ lspReq' = [lspReq EXCEPT ![id] = [st |-> "timeout", got |-> 0]]
    /\ pending_requests' = pending_requests \ {request_id}
    /\ UNCHANGED << coreVars, monVars, schedVars, emitVars, sessVars, cmdVars, request_id, readLoop >>

NextLsp ==
    \/ \E sendOk \in BOOLEAN : send_request(sendOk)
    \/ \E id \in RequestIds, isError \in BOOLEAN : handle_message(id, isError)
    \/ \E id \in RequestIds : RequestTimeout(id)

SpecLsp == Init /\ [][NextLsp]_vars

\* ------------------------------------- io_wrapper.py: command completion
MaxCmdCalls == 2

\* signal_command_complete(), lines 286-299, called while a run is in
\* progress: if has_command_output is set it is reset, and then, if the
\* dispatcher is live, streamComplete is submitted to it. submitOk FALSE:
\* get_call() / the lookup / run_coroutine_threadsafe raises, which the
\* except clause logs.
signal_command_complete(w, submitOk) ==
    /\ wpc[w] = "run"
    /\ cmdCalls < MaxCmdCalls
    /\ cmdCalls' = cmdCalls + 1
    /\ IF hasCommandOutput
         THEN /\ hasCommandOutput' = FALSE
              /\ loopQ' = IF LoopLive /\ submitOk
                            THEN Append(loopQ, Task("command_complete", w, cmdCalls + 1, TRUE))
                            ELSE loopQ
         ELSE UNCHANGED << hasCommandOutput, loopQ >>
    /\ UNCHANGED << monVars, schedVars, emitVars, sessVars, lspVars, mainLoop, runThread, nextW,
                    handlerVars, wpc, exitPath, pendingIntr, injected, sigCalls, throwQ,
                    askVars, ops, relayRaised, peerVars >>

\* the dispatcher runs the streamComplete submitted by signal_command_complete
DeliverCommandComplete(ok) ==
    /\ DispatcherIdle
    /\ HeadIs("command_complete")
    /\ loopQ' = Tail(loopQ)
    /\ peerComplete' = IF ok THEN [peerComplete EXCEPT ![Head(loopQ).by] = @ + 1]
                       ELSE peerComplete
    /\ UNCHANGED << connVars, mainLoop, runThread, nextW, handlerVars, wpc, exitPath, pendingIntr,
                    injected, sigCalls, throwQ, askVars, ops, relayRaised,
                    hasCommandOutput, peerLog, peerErrors >>

NextCommand ==
    \/ \E m \in Messages : nextW < MaxRelayRuns /\ RunSpawn(m)
    \/ RunReturn
    \/ HandlerReturns
    \/ \E w \in Workers : tool_output_wrapper(w)
    \/ \E w \in Workers, submitOk \in BOOLEAN : signal_command_complete(w, submitOk)
    \/ \E ok \in BOOLEAN : send_to_webapp_command(ok)
    \/ \E ok \in BOOLEAN : DeliverCommandComplete(ok)
    \/ LoopCloses

SpecCommand == Init /\ [][NextCommand]_vars

\* ------------------------------------------- coder_wrapper.py: the sessions
MaxSessions == 3

\* variant: the change callback captures the run method of the new session
on_coder_type_changed_recaptures(s, callOk) ==
    /\ coder' = s
    /\ original_run' = s
    /\ typeNotices' = IF callOk THEN Append(typeNotices, s) ELSE typeNotices

\* on_coder_type_changed(coder_type, edit_format, coder_instance), lines
\* 123-133: self.coder is assigned first; get_call() may raise (callOk
\* FALSE), which is logged, and otherwise the notice goes to _safe_create_task
on_coder_type_changed(s, callOk) ==
    /\ coder' = s
    /\ typeNotices' = IF callOk THEN Append(typeNotices, s) ELSE typeNotices
    /\ UNCHANGED original_run

\* patched_create, lines 36-67: the new session is stored at class level; when
\* its type differs from the current one the change is written to the log
\* file (fileOk FALSE: open() raises out of create), the type is updated and
\* the registered callback runs
patched_create(type, fileOk, callOk) ==
    /\ sessions < MaxSessions
    /\ sessions' = sessions + 1
    /\ coderInstance' = sessions + 1
    /\ IF currentCoderType # type /\ fileOk
         THEN /\ currentCoderType' = type
              /\ on_coder_type_changed(sessions + 1, callOk)
         ELSE UNCHANGED << currentCoderType, coder, original_run, typeNotices >>
    /\ UNCHANGED << coreVars, monVars, schedVars, emitVars, cmdVars, lspVars, started >>

NextCoder ==
    \/ \E type \in CoderTypes, fileOk, callOk \in BOOLEAN : patched_create(type, fileOk, callOk)
    \/ \E m \in Messages : RunSpawn(m)
    \/ RunReturn
    \/ HandlerReturns
    \/ \E w \in Workers : RunReturns(w)
    \/ \E w \in Workers : SignalInTry(w, TRUE)
    \/ \E w \in Workers : FinallyClear(w)

SpecCoder == Init /\ [][NextCoder]_vars

\* C21: every relay call (a chunk, command output, a completed assistant
\* message) and signal_completion submit their delivery and return without
\* waiting for it: the calling worker goes on at once and is never in a
\* wait for a delivery.
RelayCalled == ops' = ops + 1
WaitsOnDelivery(w) == wpc[w] = "emit_wait"
SignalReturns == \A w \in Workers : sigCalls'[w] # sigCalls[w] => wpc'[w] = "finally"
C21_FireAndForget ==
    /\ [][RelayCalled => wpc' = wpc]_vars
    /\ [][SignalReturns]_vars
    /\ [](\A w \in Workers : ~WaitsOnDelivery(w))

\* the same for every relay call but the one for a completed assistant
\* message, which waits for its delivery for up to one second
C21_FireAndForget_Amended ==
    /\ [][RelayCalled /\ (\A w \in Workers : emitFut'[w] = emitFut[w]) => wpc' = wpc]_vars
    /\ [][SignalReturns]_vars
    /\ [][\A w \in Workers : ~WaitsOnDelivery(w) /\ WaitsOnDelivery(w)'
             => RelayCalled /\ emitFut'[w] = [id |-> ops', st |-> "pending"]]_vars

\* a worker relayed a chunk and command output and has finished its run
\* while both deliveries are still queued
C21_Witness ==
    \E w \in Workers :
        /\ Len(loopQ) >= 2
        /\ loopQ[1].by = w /\ loopQ[1].kind = "write"
        /\ loopQ[2].by = w /\ loopQ[2].kind = "command"
        /\ wpc[w] = "run_done"

\* C22: when the streamWrite of a relayed chunk raises, for a chunk of the
\* stream as for command output, the delivery coroutine catches it and
\* attempts one streamError notification (which the peer receives when the
\* attempt succeeds); a failure of the attempt is swallowed.
ErrorNoticeSent == peerErrors' = peerErrors + 1 /\ loopQ' = Tail(loopQ) /\ wpc' = wpc /\ relayRaised' = relayRaised
ErrorNoticeLost == peerErrors' = peerErrors /\ peerLog' = peerLog /\ loopQ' = Tail(loopQ) /\ wpc' = wpc /\ relayRaised' = relayRaised
C22_ErrorNotice ==
    /\ [](DispatcherIdle /\ HeadIs("write")
            => /\ ENABLED (send_stream_update(FALSE, TRUE) /\ ErrorNoticeSent)
               /\ ENABLED (send_stream_update(FALSE, FALSE) /\ ErrorNoticeLost))
    /\ [](DispatcherIdle /\ HeadIs("command")
            => /\ ENABLED (send_to_webapp_command(FALSE) /\ ErrorNoticeSent)
               /\ ENABLED (send_to_webapp_command(FALSE) /\ ErrorNoticeLost))
    /\ [](relayRaised = {})

\* the same for the chunks of the stream only; a failed delivery of command
\* output is logged and no notification is attempted
C22_ErrorNotice_Amended ==
    /\ [](DispatcherIdle /\ HeadIs("write")
            => /\ ENABLED (send_stream_update(FALSE, TRUE) /\ ErrorNoticeSent)
               /\ ENABLED (send_stream_update(FALSE, FALSE) /\ ErrorNoticeLost))
    /\ [](DispatcherIdle /\ HeadIs("command")
            => /\ ~ENABLED (send_to_webapp_command(FALSE) /\ ErrorNoticeSent)
               /\ ENABLED (send_to_webapp_command(FALSE) /\ ErrorNoticeLost))
    /\ [](relayRaised = {})

\* the delivery of a chunk failed and the peer received the streamError
\* notification; the worker that produced the chunk is still in its run
C22_Witness ==
    /\ peerErrors = 1
    /\ peerLog = << >>
    /\ ops >= 1
    /\ \E w \in Workers : wpc[w] = "run"

\* C23: the dispatcher thread never waits: inside run_wrapper or stop its
\* next step can always be taken, whatever the workers are doing; with work
\* queued and no handler running it can always run the next coroutine; and
\* a coroutine that has sent its request leaves the dispatcher thread free
\* while the reply is outstanding.
Dequeued == loopQ # << >> /\ loopQ' = Tail(loopQ)
C23_DispatcherNeverBlocks ==
    /\ [](dpc # "idle" => ENABLED HandlerStep)
    /\ [](DispatcherIdle /\ loopQ # << >> => ENABLED CoroutineStep)
    /\ [][Dequeued => dpc' = "idle"]_vars
    /\ [](inflight # {} /\ mainLoop = "live" /\ dpc = "idle" => ENABLED StopCheck /\ ENABLED PeerStep)

\* the dispatcher is inside stop() while the worker waits for the reply to a
\* confirmation request that is out at the peer, and more work is queued
C23_Witness ==
    /\ dpc = "stop_ident"
    /\ inflight # {}
    /\ \E w \in Workers : wpc[w] = "ask_wait" /\ fut[w].st = "pending"

\* C24: a worker that waits for a reply which has neither arrived nor failed
\* stays where it is: nothing but the resolution of its future ends the wait
\* (no timeout, no stop() call); while it waits its run has made no
\* signal_completion call, the peer has received no streamComplete for it,
\* and _current_run_thread, if it names the worker, is not cleared.
AwaitsReply(w) == wpc[w] = "ask_wait" /\ fut[w].st = "pending"
C24_BlockedForever ==
    /\ [][\A w \in Workers :
            AwaitsReply(w)
              => /\ wpc'[w] = "ask_wait"
                 /\ AwaitsReply(w)' \/ fut'[w].st \in {"ok", "exc"}
                 /\ runThread = w => runThread' # NoThread]_vars
    /\ [](\A w \in Workers :
            AwaitsReply(w) => sigCalls[w] = 0 /\ peerComplete[w] = 0 /\ exitPath[w] = "none")

\* stop() has registered an interrupt on a worker that waits for a reply,
\* and has returned; the worker still waits and is still the recorded run
C24_Witness ==
    \E w \in Workers :
        /\ AwaitsReply(w)
        /\ pendingIntr[w]
        /\ dpc = "idle"
        /\ runThread = w
        /\ \E rq \in inflight : rq.by = w

\* C25: a start while an earlier worker is still running overwrites
\* _current_run_thread with the newer worker; the exit of a worker that is
\* not the recorded one leaves _current_run_thread unchanged; so
\* _current_run_thread holds nothing or the most recently started worker,
\* and stop() never registers an interrupt on an earlier worker.
C25_NewestRunOnly ==
    /\ [][\A w \in Workers : WorkerStarts(w) => runThread' = w /\ w = nextW']_vars
    /\ [][\A w \in Workers : WorkerExits(w) /\ runThread # w => runThread' = runThread]_vars
    /\ [](runThread \in {NoThread, nextW})
    /\ [][\A w \in Workers :
            pendingIntr'[w] /\ ~pendingIntr[w] => w = nextW /\ stopTid = w]_vars
    /\ [][\A w \in Workers : w < nextW /\ ~injected[w] => ~injected'[w]]_vars

\* the second run was started while the first was running, stop() has
\* registered its interrupt on the second, and the first, never
\* interrupted, has exited without touching _current_run_thread
C25_Witness ==
    /\ nextW = 2
    /\ runThread = 2
    /\ injected[2] /\ ~injected[1]
    /\ Exited(1) /\ exitPath[1] = "returned"
    /\ Alive(2)

\* C26: stop() answers with the interrupt-sent status only when it has
\* registered the interrupt on a worker that is alive; when the worker has
\* exited (or cleared _current_run_thread) after stop()'s test of
\* _current_run_thread, stop() answers with an error response.
InterruptSent == [status |-> "interrupt_sent_to_thread"]
StopAnswers == dpc \in {"stop_checked", "stop_ident"} /\ dpc' = "stop_return"
C26_CancelRace ==
    /\ [][StopAnswers /\ ret' = InterruptSent
            => \E w \in Workers : Alive(w) /\ stopTid = w /\ pendingIntr'[w] /\ injected'[w]]_vars
    /\ [][StopAnswers /\ (dpc = "stop_checked" => runThread = NoThread)
                      /\ (dpc = "stop_ident" => ~Alive(stopTid))
            => IsErrorResponse(ret')]_vars

\* the same with the late exit told apart: a worker that clears
\* _current_run_thread before stop() reads the thread id gives an error
\* response; one that exits after that read gives the interrupt-sent status
\* with nothing registered
C26_CancelRace_Amended ==
    /\ [][StopAnswers /\ ret' = InterruptSent
            => /\ dpc = "stop_ident"
               /\ IF Alive(stopTid) THEN pendingIntr'[stopTid] /\ injected'[stopTid]
                  ELSE pendingIntr' = pendingIntr /\ injected' = injected]_vars
    /\ [][StopAnswers /\ dpc = "stop_checked" /\ runThread = NoThread
            => IsErrorResponse(ret')]_vars

\* stop() found the run recorded, the worker cleared _current_run_thread
\* before stop() read the thread id, and stop() answered with an error
C26_Witness ==
    /\ dpc = "stop_return"
    /\ ret = create_error_response("AttributeError", "'NoneType' object has no attribute 'ident'")
    /\ nextW = 1 /\ Exited(1)

\* C27: is_connected is True after construction; only a poll of the monitor
\* writes it; after a poll it says whether the peer list that poll read was
\* non-empty, a read that failed counting as empty.
PeerListRead == IF ReadFailed(monErr') THEN 0 ELSE remotes
C27_ConnectionState ==
    /\ (isConnected = TRUE)
    /\ [][isConnected' # isConnected => PollStep]_vars
    /\ [][PollStep => isConnected' = (PeerListRead > 0)]_vars
    /\ [][~PollStep => isConnected' = isConnected]_vars

\* a poll failed to read the peer list while a peer was attached, and left
\* is_connected False
C27_Witness ==
    /\ mpc = "sleep"
    /\ ReadFailed(monErr)
    /\ remotes > 0
    /\ ~isConnected

\* C28: every worker that run_wrapper starts invokes the run method captured
\* at construction, whatever session the wrapper refers to by then; a change
\* of session replaces self.coder with the new session and leaves the
\* captured run method, the run handle and every started worker alone.
C28_CapturedRun ==
    /\ [](\A w \in Workers : wpc[w] # "unborn" => started[w].run = ConstructionSession)
    /\ [][coder' # coder
            => /\ coder' = sessions'
               /\ original_run' = original_run
               /\ started' = started
               /\ UNCHANGED coreVars]_vars

\* a run was started after the wrapper's session reference had been replaced
C28_Witness ==
    \E w \in Workers :
        /\ wpc[w] # "unborn"
        /\ started[w].run = ConstructionSession
        /\ started[w].coder # ConstructionSession

\* C29: a call of signal_command_complete submits a streamComplete if and
\* only if has_command_output is set and the dispatcher is live, and it
\* leaves has_command_output reset.
SignalCommandCompleteCalled == cmdCalls' = cmdCalls + 1
CompleteSubmitted ==
    /\ Len(loopQ') = Len(loopQ) + 1
    /\ loopQ'[Len(loopQ')].kind = "command_complete"
C29_CommandComplete ==
    /\ [][SignalCommandCompleteCalled
            => (CompleteSubmitted <=> (hasCommandOutput /\ LoopLive))]_vars
    /\ [][SignalCommandCompleteCalled => ~hasCommandOutput']_vars

\* C29, as the code has it: a streamComplete is submitted only by a call made
\* with has_command_output set and a live dispatcher; every call leaves the
\* flag reset, so a call that follows another with no command output in
\* between submits nothing; only command output sets the flag again.
C29_CommandComplete_Amended ==
    /\ [][CompleteSubmitted
            => SignalCommandCompleteCalled /\ hasCommandOutput /\ LoopLive]_vars
    /\ [][SignalCommandCompleteCalled => ~hasCommandOutput']_vars
    /\ [][SignalCommandCompleteCalled /\ ~hasCommandOutput => loopQ' = loopQ]_vars
    /\ [][~hasCommandOutput /\ hasCommandOutput' => ops' = ops + 1]_vars

\* signal_command_complete was called with command output relayed and a live
\* dispatcher, reset the flag, and submitted nothing
C29_Witness ==
    /\ cmdCalls > 0
    /\ ops > 0
    /\ ~hasCommandOutput
    /\ LoopLive
    /\ \A i \in DOMAIN loopQ : loopQ[i].kind # "command_complete"
    /\ peerComplete = [w \in 0..MaxRuns |-> 0]

\* C30: the pending_requests entry of a request is removed exactly when that
\* request finishes (result, error response or timeout), so a timeout
\* removes the entry of the request that timed out and no other, no entry
\* outlives its request, and a response completes only the request that has
\* its id.
RequestFinished(id) == lspReq[id].st \in {"result", "error", "timeout"}
C30_PendingEntries ==
    /\ [][\A id \in RequestIds :
             (id \in pending_requests /\ id \notin pending_requests')
               <=> (~RequestFinished(id) /\ RequestFinished(id)')]_vars
    /\ [](\A id \in pending_requests : ~RequestFinished(id))
    /\ [](\A id \in RequestIds : lspReq[id].st \in {"result", "error"} => lspReq[id].got = id)

\* C30, as the code has it: a response removes the entry of its own id and
\* completes only the request of that id; a timeout removes the entry of
\* the request sent last, whichever request timed out.
C30_PendingEntries_Amended ==
    /\ [][\A id \in RequestIds :
             (lspReq[id].st = "waiting" /\ lspReq'[id].st = "timeout")
               => pending_requests' = pending_requests \ {request_id}]_vars
    /\ [][\A id \in RequestIds :
             (lspReq[id].st = "waiting" /\ lspReq'[id].st \in {"result", "error"})
               => pending_requests' = pending_requests \ {id}]_vars
    /\ [](\A id \in RequestIds : lspReq[id].st \in {"result", "error"} => lspReq[id].got = id)

\* request 1 timed out while request 2 was in flight: the entry of request 2
\* is gone, the entry of request 1 is still there
C30_Witness ==
    /\ lspReq[1].st = "timeout"
    /\ lspReq[2].st = "waiting"
    /\ 1 \in pending_requests
    /\ 2 \notin pending_requests

====
